---- MODULE Spec2Model ----
(***************************************************************************)
(* Stock-Pulse: the data pipeline service (backend/services/               *)
(* pipeline_service.py) as a state machine.                                *)
(*                                                                         *)
(* The service runs on one asyncio event loop.  A coroutine runs without   *)
(* interruption from one await to the next, so every action below is the   *)
(* code between two consecutive suspension points of one coroutine:        *)
(*   run_extraction   suspends in the adapter call (line 320), in each of  *)
(*                    the four time-series upserts (lines 662-674) and in  *)
(*                    the document-ledger insert (line 415);               *)
(*   _scheduler_loop  suspends inside run_extraction and in its sleep      *)
(*                    (line 263);                                          *)
(*   stop_scheduler   suspends while it awaits the cancelled task          *)
(*                    (line 244).                                          *)
(* asyncio.CancelledError derives from BaseException: `except Exception`   *)
(* (lines 267, 416, 424, 677) does not catch it, `finally` (line 442) and  *)
(* `except asyncio.CancelledError` (lines 245, 265) do.                    *)
(***************************************************************************)
EXTENDS Integers, Sequences, FiniteSets, TLC

VARIABLES
    config,          \* which collaborators the service was constructed with
    status,          \* self.status (PipelineStatus)
    current_job,     \* self.current_job: a job id, 0 for None
    jobs,            \* self._jobs: sequence of PipelineJob, indexed by job id
    job_history,     \* self._job_history: snapshots, newest first
    metrics,         \* self.metrics (PipelineMetrics)
    tasks,           \* every asyncio task created for _scheduler_loop
    scheduler_task,  \* self._scheduler_task: an index of tasks, 0 for None
    is_running,      \* self._is_running
    logs,            \* self._extraction_logs
    stop_waiting,    \* the tasks that suspended stop_scheduler calls await
    ledger,          \* documents submitted to db.pipeline_jobs
    cache_prices,    \* identifiers whose quote the cache holds
    now,             \* the wall clock, datetime.now(timezone.utc)
    start_refused,   \* start_scheduler has returned at line 227
    tables,          \* the four tables of the time-series database
    store_call,      \* the last call made to TimeSeriesStore
    clock,           \* the wall clock read by CacheService, in seconds
    advances,        \* how many times that clock has moved
    redis_up,        \* the Redis server answers
    redis_available, \* CacheService._redis_available
    fallback_cache,  \* CacheService._fallback_cache
    redis,           \* the keys of the Redis database
    cache_call,      \* the last call made to CacheService
    set_log,         \* per key, the last set(key, value, ttl) not deleted since
    last_request_time, \* ScreenerExtractor._last_request_time
    callers,         \* the coroutines that call get_financial_data
    requests,        \* the times at which upstream requests were issued
    query_call,      \* the last read-only call made to the pipeline service
    default_symbols, \* the list object DataPipelineService.DEFAULT_SYMBOLS
    screener_cache,  \* the cache entries under the keys screener:<hash>
    http_call,       \* the last request to POST /screener and its response
    manager          \* the ConnectionManager of websocket_manager.py

\* The state of DataPipelineService and of what it calls.
pipeline_vars == <<config, status, current_job, jobs, job_history, metrics,
                   tasks, scheduler_task, is_running, logs, stop_waiting,
                   ledger, cache_prices, now, start_refused>>

\* The state of TimeSeriesStore.
store_vars == <<tables, store_call>>

cache_vars == <<clock, advances, redis_up, redis_available, fallback_cache,
                redis, cache_call, set_log>>

limiter_vars == <<last_request_time, callers, requests>>

\* The state of the request handlers of server.py and of the WebSocket
\* manager.
web_vars == <<screener_cache, http_call, manager>>

outside_pipeline == <<store_vars, cache_vars, limiter_vars, query_call,
    default_symbols, web_vars>>

outside_store == <<pipeline_vars, cache_vars, limiter_vars, query_call,
    default_symbols, web_vars>>

outside_cache == <<pipeline_vars, store_vars, limiter_vars, query_call,
    default_symbols, web_vars>>

outside_limiter == <<pipeline_vars, store_vars, cache_vars, query_call,
    default_symbols, web_vars>>

vars == <<pipeline_vars, store_vars, cache_vars, limiter_vars, query_call,
         default_symbols, web_vars>>

----------------------------------------------------------------------------
(* Bounds of the model *)

MaxJobs == 2       \* run_extraction calls in one behaviour
MaxRuns == 1       \* the same, under SpecRun
MaxInFlight == 1   \* run_extraction calls suspended at the same time
MaxTasks == 2      \* scheduler tasks created in one behaviour
MaxTime == 1       \* clock ticks
MaxKind == 1       \* record kinds (a prefix of Kinds) the payloads carry

(* Program constants *)

HISTORY_LIMIT == 100
LOG_LIMIT == 1000

NONE == -1

Symbols == {"A", "B", "C"}

\* The order in which the entries of a result map are visited.
SymOrder == <<"A", "B", "C">>

\* DataPipelineService.DEFAULT_SYMBOLS, scaled down to two identifiers.
DEFAULT_SYMBOLS == <<"A", "B">>

\* Identifier lists a caller passes to run_extraction.
ManualSymbolLists == {DEFAULT_SYMBOLS, <<"C", "C">>, <<>>}

\* interval_minutes values passed to start_scheduler.
Intervals == {1, 2}

\* Constructor arguments: which of grow_extractor, db, ts_store are given,
\* and whether init_cache_service has been called.
\* cache: "none" when init_cache_service was never called, "ok" when the
\* cache stores what it is given, "failing" when its backend raises on every
\* write (CacheService catches that and returns False).
Configs ==
    { [extractor |-> TRUE,  db |-> TRUE,  ts_store |-> TRUE,  cache |-> "ok"],
      [extractor |-> TRUE,  db |-> FALSE, ts_store |-> FALSE,
       cache |-> "none"],
      [extractor |-> FALSE, db |-> TRUE,  ts_store |-> TRUE,  cache |-> "ok"] }

\* The same, with a cache whose backend fails and with one store at a time.
RunConfigs ==
    Configs \cup
    { [extractor |-> TRUE,  db |-> TRUE,  ts_store |-> TRUE,
       cache |-> "failing"],
      [extractor |-> TRUE,  db |-> TRUE,  ts_store |-> FALSE,
       cache |-> "none"],
      [extractor |-> TRUE,  db |-> FALSE, ts_store |-> TRUE,
       cache |-> "none"] }

Kinds == <<"price", "technical", "fundamental", "shareholding">>

TerminalStatuses == {"success", "partial_success", "failed", "cancelled"}

Range(s) == {s[i] : i \in DOMAIN s}

\* The identifiers a result map reports as success, and as failed.
Successes(outcome) == {x \in DOMAIN outcome : outcome[x] = "success"}

Failures(outcome) == {x \in DOMAIN outcome : outcome[x] = "failed"}

----------------------------------------------------------------------------
(* PipelineJob *)

NewJob(owner, symbols, shared) ==
    [ owner        |-> owner,          \* 0: a direct call; else the task
      symbols      |-> symbols,
      shared       |-> shared,         \* symbols is the DEFAULT_SYMBOLS list
      status       |-> "pending",
      trail        |-> <<"pending">>,  \* every value assigned to status
      created_at   |-> now,
      started_at   |-> NONE,
      completed_at |-> NONE,
      total        |-> Len(symbols),
      processed    |-> 0,
      successful   |-> 0,
      failed       |-> 0,
      errors       |-> <<>>,
      results      |-> {},
      pc           |-> "created",
      kind         |-> 0,              \* upsert awaited, an index of Kinds
      adapter      |-> "none",         \* what the adapter call did
      outcome      |-> <<>>,           \* the result map it returned
      store_failed |-> FALSE ]         \* a persistence write has failed

SetStatus(job, s) ==
    [job EXCEPT !.status = s, !.trail = Append(@, s)]

\* PipelineJob.to_dict, lines 53-72 (the fields the history is read for)
ToDict(id, job) ==
    [ job_id       |-> id,
      status       |-> job.status,
      completed_at |-> job.completed_at,
      successful   |-> job.successful,
      failed       |-> job.failed ]

\* _log_event, lines 448-459
LogEvent(l, event_type, id) ==
    LET a == Append(l, [event_type |-> event_type, job_id |-> id])
    IN  IF Len(a) > LOG_LIMIT
        THEN SubSeq(a, Len(a) - LOG_LIMIT + 1, Len(a))
        ELSE a

----------------------------------------------------------------------------
(* TimeSeriesStore, services/timeseries_store.py *)

\* A key that the dict given to the store does not have.
ABSENT == -2

\* Identifiers, dates (as day numbers) and column values of the store.
StoreSymbols == {"X", "Y"}

Days == {1, 2}

Values == {1, 2}

\* The value of a date field of a record: a 'YYYY-MM-DD' string, a
\* datetime.date, a string that is no date, or None.
DateStr(d) == [form |-> "str", day |-> d]

DateVal(d) == [form |-> "date", day |-> d]

BadDateStr == [form |-> "str", day |-> 0]

NoDate == [form |-> "none", day |-> 0]

\* lines 118-120 (243-245, 334-336, 412-414): what becomes of the date
\* field.  A string is parsed by strptime, which raises ValueError on a
\* string that is no date; None is handed to the INSERT, where the NOT NULL
\* column rejects it (setup_databases.py lines 60, 83, 107, 134).
ParseDate(field) ==
    IF field.form = "str"
    THEN IF field.day \in Days
         THEN [outcome |-> "date", day |-> field.day]
         ELSE [outcome |-> "value_error", day |-> 0]
    ELSE IF field.form = "date"
         THEN [outcome |-> "date", day |-> field.day]
         ELSE [outcome |-> "not_null_violation", day |-> 0]

\* line 342: r.get("period_type", "quarterly"); the other kinds have no
\* such column
PeriodType(kind, r) ==
    IF kind # "fundamental" THEN "-"
    ELSE IF r.ptype = "absent" THEN "quarterly" ELSE r.ptype

\* The value bound to a non-key column: lines 126-137 give a price column
\* float(record.get(name, 0) or 0), lines 251-256, 343-351 and 420-424 give
\* the other kinds r.get(name), None when the key is absent.
StoredValue(kind, r) ==
    IF r.v # ABSENT THEN r.v
    ELSE IF kind = "price" THEN 0 ELSE NONE

\* The row an INSERT statement proposes (EXCLUDED in the conflict clause).
Row(kind, r, day) ==
    [ symbol |-> r.symbol,
      day    |-> day,
      ptype  |-> PeriodType(kind, r),
      v      |-> StoredValue(kind, r) ]

\* The conflict target of each INSERT: lines 94, 225, 314, 394.
Key(kind, row) ==
    IF kind = "fundamental"
    THEN <<row.symbol, row.day, row.ptype>>
    ELSE <<row.symbol, row.day>>

\* A conflict clause that keeps the row it finds (DO NOTHING).
ConflictUpdateKeepsOld(old, new) ==
    old

\* DO UPDATE SET col = EXCLUDED.col for every non-key column: lines 95-109,
\* 226-235, 315-326, 395-404
ConflictUpdate(old, new) ==
    new

\* An INSERT without a conflict clause, into a table without the key.
ExecuteInsertOnly(kind, table, row) ==
    table \cup {row}

\* One conn.execute of the INSERT ... ON CONFLICT statement.
Execute(kind, table, row) ==
    LET same == {x \in table : Key(kind, x) = Key(kind, row)}
    IN  (table \ same)
           \cup (IF same = {} THEN {row}
                 ELSE {ConflictUpdate(x, row) : x \in same})

\* The loop of lines 116-143 (241-260, 332-355, 410-428) inside the one
\* transaction of line 115.  st.table is what the transaction sees,
\* st.failed says that a statement has failed in it: PostgreSQL then
\* rejects every later statement of the transaction, and the handler of
\* line 142 catches that error like any other.
RECURSIVE UpsertLoop(_, _, _, _)
UpsertLoop(kind, records, i, st) ==
    IF i > Len(records) THEN st
    ELSE LET d == ParseDate(records[i].date)
         IN  IF st.failed \/ d.outcome = "value_error"
             THEN UpsertLoop(kind, records, i + 1, st)
             ELSE IF d.outcome = "not_null_violation"
             THEN UpsertLoop(kind, records, i + 1,
                             [st EXCEPT !.failed = TRUE])
             ELSE UpsertLoop(kind, records, i + 1,
                             [st EXCEPT
                                 !.table = Execute(kind, @,
                                               Row(kind, records[i], d.day)),
                                 !.count = @ + 1])

\* upsert_prices, lines 74-145, and the three like it: the table when the
\* call has returned, and the count it returns.  Leaving the transaction
\* block without an exception sends COMMIT, which PostgreSQL answers with a
\* rollback when a statement of the transaction has failed.
Upsert(kind, table, records) ==
    LET st == UpsertLoop(kind, records, 1,
                         [table |-> table, count |-> 0, failed |-> FALSE])
    IN  [ table |-> IF st.failed THEN table ELSE st.table,
          count |-> st.count ]

\* get_screener_data, lines 454-608

\* COLUMN_MAP.get(metric), lines 484-505 and 516: the table whose column
\* the metric names ("" for None).  Each table has one value column here.
ColumnMap(metric) ==
    IF metric \in {"close", "current_price"} THEN "price"
    ELSE IF metric = "rsi_14" THEN "technical"
    ELSE IF metric = "roe" THEN "fundamental"
    ELSE IF metric = "promoter_holding" THEN "shareholding"
    ELSE ""

\* DISTINCT ON (symbol) ... ORDER BY symbol, date ASC.
LatestRowsOldestFirst(kind, table) ==
    LET src == IF kind = "fundamental"
               THEN {x \in table : x.ptype = "quarterly"}
               ELSE table
    IN  {x \in src : \A y \in src : y.symbol = x.symbol => y.day >= x.day}

\* The four views of lines 556-586: DISTINCT ON (symbol) ... ORDER BY
\* symbol, <date> DESC, over the quarterly rows only for the fundamentals
\* (line 577)
LatestRows(kind, table) ==
    LET src == IF kind = "fundamental"
               THEN {x \in table : x.ptype = "quarterly"}
               ELSE table
    IN  {x \in src : \A y \in src : y.symbol = x.symbol => y.day <= x.day}

\* The column a view gives an identifier, NULL without a row: lines 598-600
ColumnOf(kind, symbol, tabs) ==
    LET rows == {x \in LatestRows(kind, tabs[kind]) : x.symbol = symbol}
    IN  IF rows = {} THEN NONE ELSE (CHOOSE x \in rows : TRUE).v

\* The views joined by JOIN instead of LEFT JOIN.
JoinedInner(tabs) ==
    { [ symbol       |-> p.symbol,
        day          |-> p.day,
        price        |-> p.v,
        technical    |-> ColumnOf("technical", p.symbol, tabs),
        fundamental  |-> ColumnOf("fundamental", p.symbol, tabs),
        shareholding |-> ColumnOf("shareholding", p.symbol, tabs) ] :
      p \in {q \in LatestRows("price", tabs["price"]) :
                \A kind \in {"technical", "fundamental", "shareholding"} :
                    \E x \in LatestRows(kind, tabs[kind]) :
                        x.symbol = q.symbol} }

\* The query reading FROM latest_tech in place of latest_prices.
LatestPricesFromTech(tabs) ==
    LatestRows("technical", tabs["technical"])

\* line 596: FROM latest_prices p, the view of lines 556-562
LatestPrices(tabs) ==
    LatestRows("price", tabs["price"])

\* lines 587-600: latest_prices LEFT JOIN the other three views
Joined(tabs) ==
    { [ symbol       |-> p.symbol,
        day          |-> p.day,
        price        |-> p.v,
        technical    |-> ColumnOf("technical", p.symbol, tabs),
        fundamental  |-> ColumnOf("fundamental", p.symbol, tabs),
        shareholding |-> ColumnOf("shareholding", p.symbol, tabs) ] :
      p \in LatestPrices(tabs) }

\* A BETWEEN that leaves out its two bounds.
CompareBetweenExclusive(op, x, val, val2) ==
    IF op = "gt" THEN x # NONE /\ x > val
    ELSE IF op = "lt" THEN x # NONE /\ x < val
    ELSE IF op = "gte" THEN x # NONE /\ x >= val
    ELSE IF op = "lte" THEN x # NONE /\ x <= val
    ELSE IF op = "eq" THEN x # NONE /\ x = val
    ELSE IF op = "between" /\ val2 # ABSENT
    THEN x # NONE /\ val < x /\ x < val2
    ELSE TRUE

\* lines 522-547: the comparison an operator puts on the column value x,
\* TRUE when the chain of elif adds no condition.  A comparison with NULL
\* is not true.
Compare(op, x, val, val2) ==
    IF op = "gt" THEN x # NONE /\ x > val
    ELSE IF op = "lt" THEN x # NONE /\ x < val
    ELSE IF op = "gte" THEN x # NONE /\ x >= val
    ELSE IF op = "lte" THEN x # NONE /\ x <= val
    ELSE IF op = "eq" THEN x # NONE /\ x = val
    ELSE IF op = "between" /\ val2 # ABSENT
    THEN x # NONE /\ val <= x /\ x <= val2
    ELSE TRUE

\* A filter without an operator read as an equality.
OperatorDefaultEq(f) ==
    IF f.op = "absent" THEN "eq" ELSE f.op

\* line 519: f.get("operator", "gte")
Operator(f) ==
    IF f.op = "absent" THEN "gte" ELSE f.op

\* An unknown metric read as a condition no row satisfies.
ConditionUnknownRejects(f, row) ==
    LET col == ColumnMap(f.metric)
        op  == Operator(f)
        val == IF f.value = ABSENT THEN 0 ELSE f.value
    IN  IF col = "" THEN FALSE
        ELSE Compare(op, row[col], val, f.value2)

\* lines 514-547: the condition one filter adds to the WHERE clause, TRUE
\* when it adds none.
Condition(f, row) ==
    LET col == ColumnMap(f.metric)
        op  == Operator(f)
        val == IF f.value = ABSENT THEN 0 ELSE f.value
    IN  IF col = "" THEN TRUE
        ELSE Compare(op, row[col], val, f.value2)

\* lines 507-510 and 549: the WHERE clause
Where(req, row) ==
    /\ req.symbols # <<>> => row.symbol \in Range(req.symbols)
    /\ \A i \in DOMAIN req.filters : Condition(req.filters[i], row)

\* The collation order of the identifiers.
SymbolRank(symbol) ==
    IF symbol = "X" THEN 1 ELSE 2

\* lines 552-553 and 602: ORDER BY sort_col sort_dir NULLS LAST; a comes
\* before b
Before(req, a, b) ==
    LET col == ColumnMap(req.sort_by)
        ka  == IF col = "" THEN SymbolRank(a.symbol) ELSE a[col]
        kb  == IF col = "" THEN SymbolRank(b.symbol) ELSE b[col]
    IN  /\ ka # NONE
        /\ IF kb = NONE THEN TRUE
           ELSE IF req.sort_order = "desc" THEN ka > kb ELSE ka < kb

\* lines 555-608: the lists the query may return.  Rows that the ORDER BY
\* clause does not tell apart come in any order, and LIMIT keeps any of
\* them.
ScreenerResults(tabs, req) ==
    LET J == {row \in Joined(tabs) : Where(req, row)}
        n == IF Cardinality(J) < req.limit THEN Cardinality(J)
             ELSE req.limit
    IN  { seq \in [1..n -> J] :
            /\ \A i, j \in 1..n :
                  i < j => (seq[i] # seq[j] /\ ~Before(req, seq[j], seq[i]))
            /\ \A r \in J \ Range(seq) :
                  \A i \in 1..n : ~Before(req, r, seq[i]) }

\* Inputs of the store

MaxBatch == 2      \* records in one batch
MaxRows == 3       \* rows in the database, under SpecScreener
MaxFilters == 2    \* filters in one screener request
MaxAdvances == 2   \* moves of the cache clock
MaxRequests == 3   \* upstream requests issued through the rate limiter
MaxLimit == 2      \* the limit given to get_logs

PeriodTypes(kind) ==
    IF kind = "fundamental" THEN {"absent", "annual"} ELSE {"absent"}

\* Records given to an upsert: well-formed ones, one whose date string
\* cannot be parsed and one without a date.
UpsertRecords(kind) ==
    [ symbol : StoreSymbols,
      date   : {DateVal(d) : d \in Days} \cup {DateStr(d) : d \in Days},
      ptype  : PeriodTypes(kind),
      v      : {ABSENT, 1} ]
    \cup
    [ symbol : {"X"},
      date   : {BadDateStr, NoDate},
      ptype  : {"absent"},
      v      : {1} ]

Batches(kind) ==
    UNION {[1..n -> UpsertRecords(kind)] : n \in 0..MaxBatch}

\* Complete records, given one at a time.
LoadRecords(kind) ==
    [ symbol : StoreSymbols,
      date   : {DateVal(d) : d \in Days},
      ptype  : PeriodTypes(kind),
      v      : Values ]

\* Filters of a screener request.
ScreenerFilters ==
    { [metric |-> "not_a_real_metric", op |-> "gt", value |-> 5,
       value2 |-> ABSENT],
      [metric |-> "close", op |-> "gte", value |-> 2, value2 |-> ABSENT],
      [metric |-> "rsi_14", op |-> "lt", value |-> 2, value2 |-> ABSENT] }

FilterLists ==
    UNION {[1..n -> ScreenerFilters] : n \in 0..MaxFilters}

\* Filters with each of the six operators, on a price column and on a
\* technical column, with values at and next to the stored ones.
OperatorFilters ==
    { [metric |-> m, op |-> o[1], value |-> o[2], value2 |-> o[3]] :
      m \in {"close", "rsi_14"},
      o \in { <<"gt", 1, ABSENT>>, <<"lt", 2, ABSENT>>, <<"gte", 2, ABSENT>>,
              <<"lte", 1, ABSENT>>, <<"eq", 2, ABSENT>>,
              <<"between", 1, 2>>, <<"between", 2, 2>> } }

OperatorFilterLists ==
    UNION {[1..n -> OperatorFilters] : n \in 0..MaxFilters}

\* Requests with these filters and the defaults of lines 457-460 for the
\* other parameters.
FilterRequests ==
    { [filters |-> f, symbols |-> <<>>, sort_by |-> "symbol",
       sort_order |-> "asc", limit |-> 200] : f \in OperatorFilterLists }

\* Filters whose operator is unknown or missing, a `between` without its
\* second value, and a filter with an operator for comparison.
OddFilters ==
    { [metric |-> "close",  op |-> "like",    value |-> 2, value2 |-> ABSENT],
      [metric |-> "rsi_14", op |-> "between", value |-> 2, value2 |-> ABSENT],
      [metric |-> "close",  op |-> "absent",  value |-> 2, value2 |-> ABSENT],
      [metric |-> "rsi_14", op |-> "absent",  value |-> 1, value2 |-> ABSENT],
      [metric |-> "close",  op |-> "lte",     value |-> 1, value2 |-> ABSENT] }

OddRequests ==
    { [filters |-> f, symbols |-> <<>>, sort_by |-> "symbol",
       sort_order |-> "asc", limit |-> 200] :
      f \in UNION {[1..n -> OddFilters] : n \in 0..MaxFilters} }

\* Requests: filters, symbols, sort_by, sort_order, limit (200 by default).
Requests ==
    { [filters |-> f, symbols |-> s, sort_by |-> o[1], sort_order |-> o[2],
       limit |-> l] :
      f \in FilterLists, s \in {<<>>, <<"X">>},
      o \in {<<"symbol", "asc">>, <<"close", "desc">>}, l \in {1, 200} }

NoRequest ==
    [filters |-> <<>>, symbols |-> <<>>, sort_by |-> "symbol",
     sort_order |-> "asc", limit |-> 0]

NoCall ==
    [ op |-> "none", kind |-> "-", records |-> <<>>, count |-> 0,
      request |-> NoRequest, result |-> <<>> ]

EmptyTables == [kind \in Range(Kinds) |-> {}]

\* An empty database and a store that was never called.
StoreInit ==
    /\ tables = EmptyTables
    /\ store_call = NoCall

\* The number of rows in the database.
RowCount ==
    Cardinality(tables["price"]) + Cardinality(tables["technical"])
    + Cardinality(tables["fundamental"])
    + Cardinality(tables["shareholding"])

\* What a database holds that one upsert call has written to.
SeedTables ==
    UNION { { [EmptyTables EXCEPT
                  ![kind] = Upsert(kind, EmptyTables[kind], records).table] :
              records \in Batches(kind) } :
            kind \in Range(Kinds) }

\* A call of one of the four upsert methods returns.
UpsertCall(kind, records) ==
    LET res == Upsert(kind, tables[kind], records)
    IN  /\ tables' = [tables EXCEPT ![kind] = res.table]
        /\ store_call' = [ op |-> "upsert", kind |-> kind,
                           records |-> records, count |-> res.count,
                           request |-> NoRequest, result |-> <<>> ]
        /\ UNCHANGED outside_store

\* upsert_prices, lines 74-145
UpsertPrices(records) == UpsertCall("price", records)

\* upsert_technicals, lines 214-262
UpsertTechnicals(records) == UpsertCall("technical", records)

\* upsert_fundamentals, lines 301-357
UpsertFundamentals(records) == UpsertCall("fundamental", records)

\* upsert_shareholding, lines 382-430
UpsertShareholding(records) == UpsertCall("shareholding", records)

\* get_screener_data, lines 454-608
GetScreenerData(req) ==
    /\ \E result \in ScreenerResults(tables, req) :
          store_call' = [ op |-> "get_screener_data", kind |-> "-",
                          records |-> <<>>, count |-> 0, request |-> req,
                          result |-> result ]
    /\ UNCHANGED <<tables, outside_store>>

----------------------------------------------------------------------------
(* CacheService, services/cache_service.py.  The statistics counters of   *)
(* self._stats are not part of the state modelled here.                    *)

PRICE_CACHE_TTL == 60

\* Keys are sequences of tokens, so that a prefix can be taken.
CacheKeys == {<<"price:", "A">>, <<"stock_list">>}

Patterns == {<<"price:", "*">>}

StockHashKey == <<"stock:", "A">>

RedisKeys == CacheKeys \cup {StockHashKey, <<"top_gainers">>, <<"top_losers">>}

\* Values given to the cache: a number and a tuple.
CacheValues ==
    { [type |-> "int", n |-> 1], [type |-> "tuple", n |-> 1] }

\* None, the result of a miss.
MISS == [type |-> "none", n |-> 0]

Ttls == {1, PRICE_CACHE_TTL}

\* json.dumps(value, default=str), lines 117 and 259: a tuple is written as
\* an array
JsonDumps(v) ==
    IF v.type = "int" THEN [type |-> "number", n |-> v.n]
    ELSE [type |-> "array", n |-> v.n]

\* json.loads(data), line 94: an array is read as a list
JsonLoads(d) ==
    IF d.type = "number" THEN [type |-> "int", n |-> d.n]
    ELSE [type |-> "list", n |-> d.n]

\* _match_pattern, lines 157-162
MatchPattern(key, pattern) ==
    IF pattern[Len(pattern)] = "*"
    THEN /\ Len(key) >= Len(pattern) - 1
         /\ SubSeq(key, 1, Len(pattern) - 1)
               = SubSeq(pattern, 1, Len(pattern) - 1)
    ELSE key = pattern

\* A key the in-process map does not have, and a key Redis does not have.
NoEntry == [present |-> FALSE, value |-> MISS, expires_at |-> 0]

NoRedisKey ==
    [type |-> "none", data |-> [type |-> "number", n |-> 0], members |-> {},
     expires_at |-> 0]

\* Redis drops a key when its time to live has run out.
Live(entry) == entry.type # "none" /\ clock < entry.expires_at

\* An expiry test that also drops the entry at the instant it expires.
ExpiredAtExpiry(entry) == clock >= entry.expires_at

\* line 104: datetime.now(timezone.utc).timestamp() > entry["expires_at"]
Expired(entry) == clock > entry.expires_at

NoCacheCall ==
    [op |-> "none", key |-> <<>>, value |-> MISS, ok |-> TRUE, members |-> {}]

NoSet == [set |-> FALSE, value |-> MISS, at |-> 0, ttl |-> 0]

\* __init__, lines 47-58; the Redis server is down and holds nothing
CacheInit ==
    /\ clock = 0
    /\ advances = 0
    /\ redis_up = FALSE
    /\ redis_available = FALSE
    /\ fallback_cache = [k \in CacheKeys |-> NoEntry]
    /\ redis = [k \in RedisKeys |-> NoRedisKey]
    /\ cache_call = NoCacheCall
    /\ set_log = [k \in CacheKeys |-> NoSet]

Called(op, key, value, ok, members) ==
    cache_call' = [op |-> op, key |-> key, value |-> value, ok |-> ok,
                   members |-> members]

\* initialize, lines 60-81: the flag is what the ping of line 73 finds
Initialize ==
    /\ redis_available' = redis_up
    /\ Called("initialize", <<>>, MISS, TRUE, {})
    /\ UNCHANGED <<clock, advances, redis_up, fallback_cache, redis, set_log>>
    /\ UNCHANGED outside_cache

\* get, lines 87-113.  A call to a server that is down raises, and the
\* handler of line 110 returns None.
Get(key) ==
    /\ IF redis_available
       THEN /\ Called("get", key,
                      IF redis_up /\ Live(redis[key])
                      THEN JsonLoads(redis[key].data) ELSE MISS,
                      TRUE, {})
            /\ UNCHANGED fallback_cache
       ELSE LET entry == fallback_cache[key]
            IN  IF ~entry.present
                THEN /\ Called("get", key, MISS, TRUE, {})
                     /\ UNCHANGED fallback_cache
                ELSE IF Expired(entry)
                THEN /\ fallback_cache' =
                           [fallback_cache EXCEPT ![key] = NoEntry]
                     /\ Called("get", key, MISS, TRUE, {})
                ELSE /\ Called("get", key, entry.value, TRUE, {})
                     /\ UNCHANGED fallback_cache
    /\ UNCHANGED <<clock, advances, redis_up, redis_available, redis, set_log>>
    /\ UNCHANGED outside_cache

\* set, lines 115-131
Set(key, value, ttl) ==
    /\ IF redis_available
       THEN /\ IF redis_up
               THEN /\ redis' = [redis EXCEPT ![key] =
                                   [type |-> "string",
                                    data |-> JsonDumps(value),
                                    members |-> {},
                                    expires_at |-> clock + ttl]]
                    /\ Called("set", key, value, TRUE, {})
               ELSE /\ Called("set", key, value, FALSE, {})
                    /\ UNCHANGED redis
            /\ UNCHANGED <<fallback_cache, set_log>>
       ELSE /\ fallback_cache' =
                  [fallback_cache EXCEPT ![key] =
                      [present |-> TRUE, value |-> value,
                       expires_at |-> clock + ttl]]
            /\ set_log' = [set_log EXCEPT ![key] =
                              [set |-> TRUE, value |-> value, at |-> clock,
                               ttl |-> ttl]]
            /\ Called("set", key, value, TRUE, {})
            /\ UNCHANGED redis
    /\ UNCHANGED <<clock, advances, redis_up, redis_available>>
    /\ UNCHANGED outside_cache

\* delete, lines 133-143
Delete(key) ==
    /\ IF redis_available
       THEN /\ IF redis_up
               THEN /\ redis' = [redis EXCEPT ![key] = NoRedisKey]
                    /\ Called("delete", key, MISS, TRUE, {})
               ELSE /\ Called("delete", key, MISS, FALSE, {})
                    /\ UNCHANGED redis
            /\ UNCHANGED <<fallback_cache, set_log>>
       ELSE /\ fallback_cache' = [fallback_cache EXCEPT ![key] = NoEntry]
            /\ set_log' = [set_log EXCEPT ![key] = NoSet]
            /\ Called("delete", key, MISS, TRUE, {})
            /\ UNCHANGED redis
    /\ UNCHANGED <<clock, advances, redis_up, redis_available>>
    /\ UNCHANGED outside_cache

\* delete_pattern, lines 145-159
DeletePattern(pattern) ==
    /\ IF redis_available
       THEN /\ IF redis_up
               THEN /\ redis' = [k \in RedisKeys |->
                                   IF MatchPattern(k, pattern)
                                   THEN NoRedisKey ELSE redis[k]]
                    /\ Called("delete_pattern", pattern, MISS, TRUE, {})
               ELSE /\ Called("delete_pattern", pattern, MISS, FALSE, {})
                    /\ UNCHANGED redis
            /\ UNCHANGED <<fallback_cache, set_log>>
       ELSE /\ fallback_cache' = [k \in CacheKeys |->
                                     IF MatchPattern(k, pattern)
                                     THEN NoEntry ELSE fallback_cache[k]]
            /\ set_log' = [k \in CacheKeys |->
                              IF MatchPattern(k, pattern)
                              THEN NoSet ELSE set_log[k]]
            /\ Called("delete_pattern", pattern, MISS, TRUE, {})
            /\ UNCHANGED redis
    /\ UNCHANGED <<clock, advances, redis_up, redis_available>>
    /\ UNCHANGED outside_cache

\* set_stock_hash, lines 254-270: hset, then expire
SetStockHash(value) ==
    /\ IF redis_available /\ redis_up
       THEN /\ redis' = [redis EXCEPT ![StockHashKey] =
                           [type |-> "hash", data |-> JsonDumps(value),
                            members |-> {},
                            expires_at |-> clock + PRICE_CACHE_TTL]]
            /\ Called("set_stock_hash", StockHashKey, value, TRUE, {})
       ELSE /\ Called("set_stock_hash", StockHashKey, value, FALSE, {})
            /\ UNCHANGED redis
    /\ UNCHANGED <<clock, advances, redis_up, redis_available, fallback_cache,
                   set_log>>
    /\ UNCHANGED outside_cache

\* zadd then expire, lines 320-321 and 324-325: the members are added to
\* those the sorted set has, and the key gets a new time to live
ZAdd(entry, members) ==
    [type |-> "zset", data |-> NoRedisKey.data,
     members |-> (IF Live(entry) THEN entry.members ELSE {}) \cup members,
     expires_at |-> clock + PRICE_CACHE_TTL]

\* update_top_movers, lines 308-330.  gainers and losers are the key sets
\* of the two dicts; an empty dict leaves its sorted set alone.
UpdateTopMovers(gainers, losers) ==
    /\ IF redis_available /\ redis_up
       THEN /\ redis' =
                  [redis EXCEPT
                      ![<<"top_gainers">>] =
                          IF gainers # {} THEN ZAdd(@, gainers) ELSE @,
                      ![<<"top_losers">>] =
                          IF losers # {} THEN ZAdd(@, losers) ELSE @]
            /\ Called("update_top_movers", <<>>, MISS, TRUE, gainers)
       ELSE /\ Called("update_top_movers", <<>>, MISS, FALSE, gainers)
            /\ UNCHANGED redis
    /\ UNCHANGED <<clock, advances, redis_up, redis_available, fallback_cache,
                   set_log>>
    /\ UNCHANGED outside_cache

\* zrevrange(key, 0, count - 1) for a count no smaller than the set
TopMovers(op, key) ==
    /\ Called(op, key, MISS, TRUE,
              IF redis_available /\ redis_up /\ Live(redis[key])
              THEN redis[key].members ELSE {})
    /\ UNCHANGED <<clock, advances, redis_up, redis_available, fallback_cache,
                   redis, set_log>>
    /\ UNCHANGED outside_cache

\* get_top_gainers, lines 332-340
GetTopGainers == TopMovers("get_top_gainers", <<"top_gainers">>)

\* get_top_losers, lines 342-350
GetTopLosers == TopMovers("get_top_losers", <<"top_losers">>)

\* publish_price, lines 356-367
PublishPrice ==
    /\ Called("publish_price", <<>>, MISS, redis_available /\ redis_up, {})
    /\ UNCHANGED <<clock, advances, redis_up, redis_available, fallback_cache,
                   redis, set_log>>
    /\ UNCHANGED outside_cache

\* Time passes.
AdvanceClock(d) ==
    /\ clock' = clock + d
    /\ advances' = advances + 1
    /\ UNCHANGED <<redis_up, redis_available, fallback_cache, redis,
                   cache_call, set_log>>
    /\ UNCHANGED outside_cache

\* The Redis server comes up or goes down.
BackendChange ==
    /\ redis_up' = ~redis_up
    /\ UNCHANGED <<clock, advances, redis_available, fallback_cache, redis,
                   cache_call, set_log>>
    /\ UNCHANGED outside_cache

----------------------------------------------------------------------------
(* ScreenerExtractor, data_extraction/extractors/screener_extractor.py:    *)
(* the rate limiter of get_financial_data                                  *)

REQUEST_DELAY == 2

\* time.time() when the process starts, in seconds since the epoch.
StartTime == 1000

\* time.time(), lines 226 and 230
TimeTime == StartTime + clock

Callers == {"c1", "c2"}

Idle == [pc |-> "idle", wake_at |-> 0]

\* __init__, lines 192-198
LimiterInit ==
    /\ last_request_time = 0
    /\ callers = [c \in Callers |-> Idle]
    /\ requests = <<>>

\* get_financial_data for a symbol that is not cached, lines 243-260, up
\* to its first suspension: _rate_limit (lines 223-230) either suspends in
\* asyncio.sleep or sets the watermark and returns, and then the request
\* is issued (line 258) with no suspension in between.
Enter(c) ==
    /\ callers[c].pc = "idle"
    /\ LET elapsed == TimeTime - last_request_time
       IN  IF elapsed < REQUEST_DELAY
           THEN /\ callers' = [callers EXCEPT ![c] =
                                  [pc |-> "sleeping",
                                   wake_at |-> TimeTime
                                               + (REQUEST_DELAY - elapsed)]]
                /\ UNCHANGED <<last_request_time, requests>>
           ELSE /\ last_request_time' = TimeTime
                /\ requests' = Append(requests, TimeTime)
                /\ UNCHANGED callers
    /\ UNCHANGED outside_limiter

\* asyncio.sleep returns (line 229); line 230 sets the watermark and the
\* request is issued (line 258)
Wake(c) ==
    /\ callers[c].pc = "sleeping"
    /\ TimeTime >= callers[c].wake_at
    /\ last_request_time' = TimeTime
    /\ requests' = Append(requests, TimeTime)
    /\ callers' = [callers EXCEPT ![c] = Idle]
    /\ UNCHANGED outside_limiter

----------------------------------------------------------------------------
(* The read-only methods of DataPipelineService *)

SUMMARY_JOBS == 10

\* dict.get(key, default) for the key "results"
GetResults(d, default) ==
    IF "results" \in DOMAIN d THEN d.results ELSE default

\* seq[start:] as Python slices a list
SliceFrom(seq, start) ==
    LET n  == Len(seq)
        s0 == IF start < 0
              THEN (IF start + n < 0 THEN 0 ELSE start + n)
              ELSE (IF start > n THEN n ELSE start)
    IN  SubSeq(seq, s0 + 1, n)

\* seq[:stop] for a stop that is not negative
SliceTo(seq, stop) ==
    SubSeq(seq, 1, IF stop > Len(seq) THEN Len(seq) ELSE stop)

\* get_logs, lines 490-495; "" stands for event_type=None, which line 493
\* treats like an empty string
Logs(l, limit, event_type) ==
    LET f == IF event_type # ""
             THEN SelectSeq(l, LAMBDA e : e.event_type = event_type)
             ELSE l
    IN  SliceFrom(f, 0 - limit)

\* The loop of lines 502-507 over the history entries h[i..]: the payload
\* of a symbol is that of the first entry that has it.  A payload is named
\* by the job it came from.
RECURSIVE SymbolsData(_, _, _)
SymbolsData(h, i, acc) ==
    IF i > Len(h) THEN acc
    ELSE IF h[i].status \in {"success", "partial_success"}
         THEN SymbolsData(h, i + 1,
                 acc \cup { <<symbol, h[i].job_id>> :
                              symbol \in { x \in GetResults(h[i], {}) :
                                             \A p \in acc : p[1] # x } })
         ELSE SymbolsData(h, i + 1, acc)

\* get_data_summary, lines 497-513: data_by_symbol
DataBySymbol(h) == SymbolsData(SliceTo(h, SUMMARY_JOBS), 1, {})

NoQuery ==
    [op |-> "none", limit |-> 0, event_type |-> "", logs |-> <<>>,
     data_by_symbol |-> {}, unique_symbols_extracted |-> 0]

QueryInit == query_call = NoQuery

\* line 126: the class attribute, one list shared by all who read it
SymbolsInit == default_symbols = DEFAULT_SYMBOLS

\* get_logs(limit, event_type) returns
GetLogs(limit, event_type) ==
    /\ query_call' = [NoQuery EXCEPT !.op = "get_logs",
                                     !.limit = limit,
                                     !.event_type = event_type,
                                     !.logs = Logs(logs, limit, event_type)]
    /\ UNCHANGED <<pipeline_vars, store_vars, cache_vars, limiter_vars,
                   default_symbols, web_vars>>

\* get_data_summary() returns
GetDataSummary ==
    /\ query_call' =
          [NoQuery EXCEPT !.op = "get_data_summary",
                          !.data_by_symbol = DataBySymbol(job_history),
                          !.unique_symbols_extracted =
                              Cardinality(DataBySymbol(job_history))]
    /\ UNCHANGED <<pipeline_vars, store_vars, cache_vars, limiter_vars,
                   default_symbols, web_vars>>

----------------------------------------------------------------------------
(* POST /screener, server.py lines 534-573.  The store is connected        *)
(* (_ts_store is set) and the cache is the in-process one; screener_cache  *)
(* is the part of its map under the keys screener:<hash>.                  *)

SCREENER_CACHE_TTL == 120

\* Filter lists and requests sent to the endpoint.
HttpFilters ==
    { <<>>,
      <<[metric |-> "close", op |-> "gte", value |-> 2, value2 |-> ABSENT]>> }

\* Requests that differ in one parameter from the request without filters,
\* sorted by symbol, of limit 200.
HttpRequests ==
    { [filters |-> o[1], symbols |-> <<>>, sort_by |-> o[2],
       sort_order |-> o[3], limit |-> o[4]] :
      o \in { <<f, "symbol", "asc", 200>> : f \in HttpFilters }
            \cup { <<<<>>, "symbol", "asc", 1>>,
                   <<<<>>, "close", "desc", 200>> } }

\* lines 547-550: "screener:" and the first 12 hex digits of the MD5 of the
\* filters written as JSON; nothing else of the request enters the key
CacheKey(req) == <<"screener:", req.filters>>

ScreenerKeys == {CacheKey(req) : req \in HttpRequests}

NoResponse == [count |-> 0, stocks |-> <<>>, source |-> "none"]

\* An entry carries, beside what the cache stores, the request whose
\* response it is.
NoScreenerEntry ==
    [present |-> FALSE, value |-> NoResponse, expires_at |-> 0,
     request |-> NoRequest]

NoHttp ==
    [request |-> NoRequest, response |-> NoResponse, cached |-> FALSE,
     produced_by |-> NoRequest]

\* screen_stocks, lines 534-573, and the in-memory path of lines 574-610
\* when the store returns no row
ScreenStocks(req) ==
    LET key      == CacheKey(req)
        entry    == screener_cache[key]
        hit      == entry.present /\ ~Expired(entry)
        afterGet == IF entry.present /\ Expired(entry)
                    THEN [screener_cache EXCEPT ![key] = NoScreenerEntry]
                    ELSE screener_cache
    IN  /\ IF hit
           THEN /\ http_call' = [request |-> req, response |-> entry.value,
                                 cached |-> TRUE,
                                 produced_by |-> entry.request]
                /\ UNCHANGED <<screener_cache, store_vars>>
           ELSE \E result \in ScreenerResults(tables, req) :
                   LET response == [count |-> Len(result), stocks |-> result,
                                    source |-> "postgresql"]
                   IN  /\ store_call' =
                             [ op |-> "get_screener_data", kind |-> "-",
                               records |-> <<>>, count |-> 0,
                               request |-> req, result |-> result ]
                       /\ UNCHANGED tables
                       /\ IF result # <<>>
                          THEN /\ screener_cache' =
                                     [afterGet EXCEPT ![key] =
                                         [present |-> TRUE,
                                          value |-> response,
                                          expires_at |->
                                              clock + SCREENER_CACHE_TTL,
                                          request |-> req]]
                               /\ http_call' =
                                     [request |-> req, response |-> response,
                                      cached |-> FALSE, produced_by |-> req]
                          ELSE /\ screener_cache' = afterGet
                               /\ http_call' =
                                     [request |-> req,
                                      response |-> [NoResponse EXCEPT
                                                      !.source = "memory"],
                                      cached |-> FALSE, produced_by |-> req]
        /\ UNCHANGED <<manager, pipeline_vars, cache_vars, limiter_vars,
                       query_call, default_symbols>>

----------------------------------------------------------------------------
(* ConnectionManager, services/websocket_manager.py.  Its dicts are        *)
(* functions whose domain is the set of keys.                              *)

Clients == {"c1", "c2"}

\* Symbols as clients write them, and price updates.
SymbolLists == {<<"a">>, <<"B">>, <<"a", "B">>}

PriceUpdates == {{"A"}, {"A", "B"}}

\* symbol.upper() on these symbols
Upper(symbol) == IF symbol = "a" THEN "A" ELSE symbol

\* d[k] = v, and del d[k]
Put(d, k, v) == [x \in DOMAIN d \cup {k} |-> IF x = k THEN v ELSE d[x]]

Del(d, k) == [x \in DOMAIN d \ {k} |-> d[x]]

\* __init__, lines 19-33
ManagerInit ==
    manager = [ active_connections       |-> {},
                subscriptions            |-> [s \in {} |-> {}],
                connection_subscriptions |-> [c \in {} |-> {}],
                price_cache              |-> {} ]

\* disconnect, lines 43-57, applied to the manager m
Disconnected(m, client_id) ==
    LET mine == IF client_id \in DOMAIN m.connection_subscriptions
                THEN m.connection_subscriptions[client_id] ELSE {}
        left == {s \in DOMAIN m.subscriptions :
                    ~(s \in mine /\ m.subscriptions[s] \ {client_id} = {})}
    IN  [m EXCEPT
           !.active_connections = @ \ {client_id},
           !.subscriptions =
               [s \in left |-> IF s \in mine
                               THEN m.subscriptions[s] \ {client_id}
                               ELSE m.subscriptions[s]],
           !.connection_subscriptions = Del(@, client_id)]

\* lines 61-68: the loop of subscribe over symbols[i..]; for a client
\* without an entry in connection_subscriptions line 68 raises KeyError
\* after line 67 has added the client
RECURSIVE SubscribeLoop(_, _, _, _)
SubscribeLoop(m, client_id, symbols, i) ==
    IF i > Len(symbols) THEN m
    ELSE LET symbol == Upper(symbols[i])
             subs   == IF symbol \in DOMAIN m.subscriptions
                       THEN m.subscriptions[symbol] ELSE {}
             m1     == [m EXCEPT !.subscriptions =
                            Put(@, symbol, subs \cup {client_id})]
         IN  IF client_id \notin DOMAIN m.connection_subscriptions
             THEN m1
             ELSE SubscribeLoop(
                      [m1 EXCEPT !.connection_subscriptions[client_id] =
                                     @ \cup {symbol}],
                      client_id, symbols, i + 1)

\* lines 77-86: the loop of unsubscribe over symbols[i..]
RECURSIVE UnsubscribeLoop(_, _, _, _)
UnsubscribeLoop(m, client_id, symbols, i) ==
    IF i > Len(symbols) THEN m
    ELSE LET symbol == Upper(symbols[i])
             m1 == IF symbol \in DOMAIN m.subscriptions
                   THEN IF m.subscriptions[symbol] \ {client_id} = {}
                        THEN [m EXCEPT !.subscriptions = Del(@, symbol)]
                        ELSE [m EXCEPT !.subscriptions[symbol] =
                                           @ \ {client_id}]
                   ELSE m
             m2 == IF client_id \in DOMAIN m1.connection_subscriptions
                   THEN [m1 EXCEPT !.connection_subscriptions[client_id] =
                                       @ \ {symbol}]
                   ELSE m1
         IN  UnsubscribeLoop(m2, client_id, symbols, i + 1)

\* lines 129-142: disconnect is called for each client whose send failed
RECURSIVE DisconnectAll(_, _)
DisconnectAll(m, clients) ==
    IF clients = {} THEN m
    ELSE LET c == CHOOSE x \in clients : TRUE
         IN  DisconnectAll(Disconnected(m, c), clients \ {c})

ManagerStep(m) ==
    /\ manager' = m
    /\ UNCHANGED <<screener_cache, http_call, pipeline_vars, store_vars,
                   cache_vars, limiter_vars, query_call, default_symbols>>

\* connect, lines 36-41
Connect(client_id) ==
    ManagerStep([manager EXCEPT
                    !.active_connections = @ \cup {client_id},
                    !.connection_subscriptions = Put(@, client_id, {})])

\* disconnect, lines 43-57
Disconnect(client_id) ==
    ManagerStep(Disconnected(manager, client_id))

\* subscribe, lines 59-73; _send_cached_prices changes nothing
Subscribe(client_id, symbols) ==
    ManagerStep(SubscribeLoop(manager, client_id, symbols, 1))

\* unsubscribe, lines 75-88
Unsubscribe(client_id, symbols) ==
    ManagerStep(UnsubscribeLoop(manager, client_id, symbols, 1))

\* broadcast_prices, lines 113-142; failing: the clients whose send_json
\* raises
BroadcastPrices(prices, failing) ==
    LET m1 == [manager EXCEPT !.price_cache = @ \cup prices]
        client_updates ==
            {c \in Clients :
                \E s \in prices \cap DOMAIN manager.subscriptions :
                    c \in manager.subscriptions[s]}
    IN  ManagerStep(DisconnectAll(m1,
            client_updates \cap manager.active_connections \cap failing))

\* The state of the request handlers before any request.
WebInit ==
    /\ screener_cache = [k \in ScreenerKeys |-> NoScreenerEntry]
    /\ http_call = NoHttp
    /\ ManagerInit

----------------------------------------------------------------------------
\* The service after __init__ and initialize: h is the history that
\* initialize loads from the database (lines 206-214, at most 100 documents,
\* newest first), l the event log.
InitSeeded(configs, h, l) ==
    /\ config \in configs
    /\ status = "idle"
    /\ current_job = 0
    /\ jobs = <<>>
    /\ job_history = h
    /\ metrics = [ total_jobs_run          |-> 0,
                   successful_jobs         |-> 0,
                   failed_jobs             |-> 0,
                   total_symbols_processed |-> 0,
                   last_run_time           |-> NONE,
                   next_scheduled_run      |-> NONE,
                   expected_daily_symbols  |-> Len(DEFAULT_SYMBOLS),
                   received_daily_symbols  |-> 0,
                   missing_symbols         |-> <<>>,
                   avg_job_duration_seconds |-> [num |-> 0, den |-> 1] ]
    /\ tasks = <<>>
    /\ scheduler_task = 0
    /\ is_running = FALSE
    /\ logs = l
    /\ stop_waiting = {}
    /\ ledger = <<>>
    /\ cache_prices = {}
    /\ now = 0
    /\ start_refused = FALSE

InitWith(configs) == InitSeeded(configs, <<>>, <<>>)

Init == InitWith(Configs) /\ StoreInit /\ CacheInit /\ LimiterInit /\ QueryInit /\ SymbolsInit /\ WebInit

InitRun == InitWith(RunConfigs) /\ StoreInit /\ CacheInit /\ LimiterInit /\ QueryInit /\ SymbolsInit /\ WebInit

----------------------------------------------------------------------------
(* run_extraction: the synchronous pieces *)

\* lines 312-313
Started(job) ==
    [SetStatus(job, "running") EXCEPT !.started_at = now]

\* Classify with the PARTIAL_SUCCESS branch lost.
ClassifyNoPartial(successful, total) ==
    IF successful = total THEN "success" ELSE "failed"

\* lines 375-381
Classify(successful, total) ==
    IF successful = total THEN "success"
    ELSE IF successful > 0 THEN "partial_success"
    ELSE "failed"

\* A failed entry recorded without being counted as processed.
ProcessOneFailedUncounted(job, symbol, result) ==
    IF result = "success"
    THEN [job EXCEPT !.processed = @ + 1,
                     !.successful = @ + 1,
                     !.results = @ \cup {symbol}]
    ELSE [job EXCEPT !.failed = @ + 1,
                     !.errors = Append(@, [symbol |-> symbol,
                                           timestamp |-> now])]

\* lines 332-353: one entry of the result map
ProcessOne(job, symbol, result) ==
    IF result = "success"
    THEN [job EXCEPT !.processed = @ + 1,
                     !.successful = @ + 1,
                     !.results = @ \cup {symbol}]
    ELSE [job EXCEPT !.processed = @ + 1,
                     !.failed = @ + 1,
                     !.errors = Append(@, [symbol |-> symbol,
                                           timestamp |-> now])]

\* The loop over results.items() leaving at the first failed entry.
RECURSIVE ProcessResultsAbort(_, _, _)
ProcessResultsAbort(job, outcome, i) ==
    IF i > Len(SymOrder) THEN job
    ELSE IF SymOrder[i] \in DOMAIN outcome
         THEN IF outcome[SymOrder[i]] = "success"
              THEN ProcessResultsAbort(
                       ProcessOne(job, SymOrder[i], outcome[SymOrder[i]]),
                       outcome, i + 1)
              ELSE ProcessOne(job, SymOrder[i], outcome[SymOrder[i]])
         ELSE ProcessResultsAbort(job, outcome, i + 1)

\* lines 331-353: the loop over results.items()
RECURSIVE ProcessResults(_, _, _)
ProcessResults(job, outcome, i) ==
    IF i > Len(SymOrder) THEN job
    ELSE IF SymOrder[i] \in DOMAIN outcome
         THEN ProcessResults(ProcessOne(job, SymOrder[i], outcome[SymOrder[i]]),
                             outcome, i + 1)
         ELSE ProcessResults(job, outcome, i + 1)

\* lines 383: classification and completion time
Completed(job) ==
    [SetStatus(job, Classify(job.successful, job.total))
        EXCEPT !.completed_at = now]

\* line 373: [s for s in symbols if s not in received_symbols]
Missing(symbols, received) ==
    SelectSeq(symbols, LAMBDA s : s \notin received)

\* lines 395-399: (avg * (total_jobs_run - 1) + duration) / total_jobs_run,
\* total_jobs_run being n.  The average is kept as a fraction num/den.
AverageAfter(avg, n, duration) ==
    [num |-> avg.num * (n - 1) + duration * avg.den, den |-> avg.den * n]

\* lines 371-373 and 385-399
MetricsCompleted(m, job) ==
    [m EXCEPT !.received_daily_symbols = Cardinality(job.results),
              !.missing_symbols = Missing(job.symbols, job.results),
              !.total_jobs_run = @ + 1,
              !.successful_jobs =
                  IF job.status \in {"success", "partial_success"}
                  THEN @ + 1 ELSE @,
              !.failed_jobs =
                  IF job.status \in {"success", "partial_success"}
                  THEN @ ELSE @ + 1,
              !.total_symbols_processed = @ + job.successful,
              !.last_run_time = job.completed_at,
              !.avg_job_duration_seconds =
                  AverageAfter(@, m.total_jobs_run + 1,
                               job.completed_at - job.started_at)]

\* The `except Exception` block leaving the job as it found it.
ExceptJobUntouched(job) ==
    job

\* lines 424-432: the `except Exception` block, the job's part
ExceptJob(job) ==
    [SetStatus(job, "failed")
        EXCEPT !.completed_at = now,
               !.errors = Append(@, [symbol |-> "job_error",
                                     timestamp |-> now])]

\* The `except Exception` block counting the failure but not the run.
MetricsFailedUncounted(m) ==
    [m EXCEPT !.failed_jobs = @ + 1]

\* lines 434-435
MetricsFailed(m) ==
    [m EXCEPT !.failed_jobs = @ + 1, !.total_jobs_run = @ + 1]

\* The history cut at its other end: the newest entry is the one dropped.
HistoryInsertDropNewest(h, d) ==
    LET a == <<d>> \o h
    IN  IF Len(a) > HISTORY_LIMIT THEN SubSeq(a, 2, Len(a)) ELSE a

\* lines 419-422
HistoryInsert(h, d) ==
    LET a == <<d>> \o h
    IN  IF Len(a) > HISTORY_LIMIT THEN SubSeq(a, 1, HISTORY_LIMIT) ELSE a

\* The `finally` block forgetting the scheduler.
FinallyStatusIdle ==
    "idle"

\* line 444
FinallyStatus ==
    IF is_running THEN "scheduled" ELSE "idle"

\* A failed upsert reaching the `except Exception` block of line 424.
JobFailedByPersistError(job) ==
    [SetStatus(job, "failed") EXCEPT !.store_failed = TRUE,
                                     !.completed_at = now]

\* lines 677-679: the handler of a failed upsert leaves the job as it is
JobAfterPersistError(job) ==
    [job EXCEPT !.store_failed = TRUE]

\* lines 416-417: the handler of a failed ledger insert does the same
JobAfterInsertError(job) ==
    [job EXCEPT !.store_failed = TRUE]

\* A cancellation handler that marks the job, whatever its status.
JobCancelledAlways(job) ==
    [SetStatus(job, "cancelled") EXCEPT !.pc = "aborted",
                                        !.completed_at = now]

\* A CancelledError raised at an await of run_extraction passes the
\* `except Exception` of line 424 and reaches `finally`: no statement
\* touches the job.
JobAfterCancel(job) ==
    [job EXCEPT !.pc = "aborted"]

----------------------------------------------------------------------------
(* _scheduler_loop around run_extraction *)

\* line 260, executed when run_extraction returns to the loop
LoopMetrics(m, owner) ==
    IF owner = 0 THEN m
    ELSE [m EXCEPT !.next_scheduled_run = now + tasks[owner].interval]

\* The loop ending after a tick instead of sleeping.
TaskEndsAfterReturn(task) ==
    [ interval |-> 0, pc |-> "done", job |-> 0, cancel |-> FALSE ]

\* line 263: the loop suspends in its sleep
TaskAfterReturn(task) ==
    [task EXCEPT !.pc = "sleep", !.job = 0]

TasksAfterReturn(owner) ==
    IF owner = 0 THEN tasks
    ELSE [tasks EXCEPT ![owner] = TaskAfterReturn(@)]

\* A coroutine whose task has a cancellation pending takes no normal step.
Runnable(owner) ==
    IF owner = 0 THEN TRUE ELSE ~tasks[owner].cancel

InFlight(job) == job.pc \in {"extract", "upsert", "insert"}

----------------------------------------------------------------------------
(* run_extraction, lines 273-446 *)

\* lines 419-446 once the last await is behind: history, `finally`, return,
\* and for a scheduler tick the code of the loop up to its sleep
Finish(j, job, m, l) ==
    /\ jobs' = [jobs EXCEPT ![j] = [job EXCEPT !.pc = "done"]]
    /\ job_history' = HistoryInsert(job_history, ToDict(j, job))
    /\ current_job' = 0
    /\ status' = FinallyStatus
    /\ metrics' = LoopMetrics(m, job.owner)
    /\ tasks' = TasksAfterReturn(job.owner)
    /\ logs' = l

\* lines 412-417: after _persist_to_timeseries, the ledger insert is awaited
\* when a database was given
AfterPersist(j, job, m, l) ==
    IF config.db
    THEN /\ jobs' = [jobs EXCEPT ![j] = [job EXCEPT !.pc = "insert"]]
         /\ metrics' = m
         /\ logs' = l
         /\ UNCHANGED <<job_history, current_job, status, tasks>>
    ELSE Finish(j, job, m, l)

\* lines 288-320: from the call to the await of the adapter; without an
\* adapter line 316 raises and the call returns without suspending
RunJob(owner, symbols, shared) ==
    LET id   == Len(jobs) + 1
        job0 == Started(NewJob(owner, symbols, shared))
        l0   == LogEvent(logs, "job_started", id)
    IN  /\ Len(jobs) < MaxJobs
        /\ IF config.extractor
           THEN /\ jobs' = Append(jobs, [job0 EXCEPT !.pc = "extract"])
                /\ current_job' = id
                /\ status' = "running"
                /\ logs' = l0
                /\ metrics' = metrics
                /\ tasks' = IF owner = 0 THEN tasks
                            ELSE [tasks EXCEPT ![owner].pc = "job",
                                               ![owner].job = id]
           ELSE /\ jobs' = Append(jobs, [ExceptJob(job0) EXCEPT
                                            !.pc = "done",
                                            !.adapter = "missing"])
                /\ current_job' = 0
                /\ status' = FinallyStatus
                /\ logs' = LogEvent(l0, "job_failed", id)
                /\ metrics' = LoopMetrics(MetricsFailed(metrics), owner)
                /\ tasks' = TasksAfterReturn(owner)
        /\ UNCHANGED outside_pipeline
        /\ UNCHANGED <<config, job_history, scheduler_task, is_running,
                       stop_waiting, ledger, cache_prices, now>>

\* run_extraction(symbols) called with a list: a caller that is a scheduler
\* task passes self.DEFAULT_SYMBOLS itself (line 257), a request handler a
\* list of its own.
RunExtraction(owner, symbols) ==
    RunJob(owner, symbols, owner # 0)

\* The same call, made while fewer than MaxInFlight calls are suspended.
Begin(owner, symbols) ==
    /\ Cardinality({k \in DOMAIN jobs : InFlight(jobs[k])}) < MaxInFlight
    /\ RunExtraction(owner, symbols)

\* A client calls run_extraction(symbols).
ManualRun(symbols) ==
    /\ Begin(0, symbols)
    /\ UNCHANGED start_refused

\* lines 288-289: run_extraction() without identifiers takes the
\* DEFAULT_SYMBOLS list itself, not a copy of it
RunExtractionNone ==
    /\ RunJob(0, default_symbols, TRUE)
    /\ UNCHANGED start_refused

\* symbol.upper().strip() on the identifiers of the requests below
Normal(symbol) ==
    IF symbol = " c" THEN "C" ELSE symbol

\* lines 520-526: the loop of add_symbols over symbols[i..]
RECURSIVE AddLoop(_, _, _)
AddLoop(list, symbols, i) ==
    IF i > Len(symbols) THEN list
    ELSE LET symbol == Normal(symbols[i])
         IN  IF symbol # "" /\ symbol \notin Range(list)
             THEN AddLoop(Append(list, symbol), symbols, i + 1)
             ELSE AddLoop(list, symbols, i + 1)

\* list.remove(symbol): the first occurrence is taken out
ListRemove(list, symbol) ==
    LET k == CHOOSE n \in DOMAIN list :
                /\ list[n] = symbol
                /\ \A m \in 1..(n - 1) : list[m] # symbol
    IN  SubSeq(list, 1, k - 1) \o SubSeq(list, k + 1, Len(list))

\* lines 541-547: the loop of remove_symbols over symbols[i..]
RECURSIVE RemoveLoop(_, _, _)
RemoveLoop(list, symbols, i) ==
    IF i > Len(symbols) THEN list
    ELSE LET symbol == Normal(symbols[i])
         IN  IF symbol \in Range(list)
             THEN RemoveLoop(ListRemove(list, symbol), symbols, i + 1)
             ELSE RemoveLoop(list, symbols, i + 1)

\* The DEFAULT_SYMBOLS list object now holds `list`: so does every name
\* bound to that object, the symbols field of the jobs created from it
\* included.
DefaultSymbolsBecome(list) ==
    /\ default_symbols' = list
    /\ jobs' = [j \in DOMAIN jobs |->
                  IF jobs[j].shared THEN [jobs[j] EXCEPT !.symbols = list]
                  ELSE jobs[j]]
    /\ metrics' = [metrics EXCEPT !.expected_daily_symbols = Len(list)]
    /\ UNCHANGED <<store_vars, cache_vars, limiter_vars, query_call,
                   web_vars>>
    /\ UNCHANGED <<config, status, current_job, job_history, tasks,
                   scheduler_task, is_running, logs, stop_waiting, ledger,
                   cache_prices, now, start_refused>>

\* add_symbols, lines 515-534
AddSymbols(symbols) ==
    DefaultSymbolsBecome(AddLoop(default_symbols, symbols, 1))

\* remove_symbols, lines 536-555
RemoveSymbols(symbols) ==
    DefaultSymbolsBecome(RemoveLoop(default_symbols, symbols, 1))

\* The result maps extract_bulk_quotes may return for a request.
Outcomes(symbols) ==
    UNION {[D -> {"success", "failed"}] : D \in SUBSET Range(symbols)}

\* The result maps that give every identifier of the request the same
\* answer.
UniformOutcomes(symbols) ==
    {[x \in Range(symbols) |-> r] : r \in {"success", "failed"}}

\* The first record kind of a job whose successful payloads are quotes
\* (lines 602-613): price records, when line 409 calls the store at all.
QuoteFirst(outcome) ==
    IF config.ts_store /\ Successes(outcome) # {} THEN 1 ELSE 0

\* lines 320-410: the adapter returns `outcome`.  The cache writes of lines
\* 340-346 never raise (CacheService catches its own failures).
\* first: the first record kind for which _persist_to_timeseries has
\* records (lines 597-662), 0 when it has none or is not called.
AdapterReturn(j, outcome, first) ==
    /\ j \in DOMAIN jobs
    /\ jobs[j].pc = "extract"
    /\ Runnable(jobs[j].owner)
    /\ outcome \in Outcomes(jobs[j].symbols)
    /\ LET job1 == ProcessResults([jobs[j] EXCEPT !.adapter = "returned",
                                                  !.outcome = outcome],
                                  outcome, 1)
           job2 == Completed([job1 EXCEPT !.store_failed =
                                 config.cache = "failing"
                                 /\ job1.results # {}])
           m    == MetricsCompleted(metrics, job2)
           l    == LogEvent(logs, "job_completed", j)
       IN  /\ first # 0 => (config.ts_store /\ job2.results # {})
           /\ cache_prices' = IF config.cache = "ok"
                              THEN cache_prices \cup job2.results
                              ELSE cache_prices
           /\ IF first # 0
              THEN /\ jobs' = [jobs EXCEPT ![j] = [job2 EXCEPT
                                                      !.pc = "upsert",
                                                      !.kind = first]]
                   /\ metrics' = m
                   /\ logs' = l
                   /\ UNCHANGED <<job_history, current_job, status, tasks>>
              ELSE AfterPersist(j, job2, m, l)
    /\ UNCHANGED outside_pipeline
    /\ UNCHANGED <<config, scheduler_task, is_running, stop_waiting, ledger,
                   now, start_refused>>

\* lines 320, 424-446: the adapter raises an Exception
AdapterRaise(j) ==
    /\ j \in DOMAIN jobs
    /\ jobs[j].pc = "extract"
    /\ Runnable(jobs[j].owner)
    /\ jobs' = [jobs EXCEPT ![j] = [ExceptJob(@) EXCEPT !.pc = "done",
                                                        !.adapter = "raised"]]
    /\ current_job' = 0
    /\ status' = FinallyStatus
    /\ logs' = LogEvent(logs, "job_failed", j)
    /\ metrics' = LoopMetrics(MetricsFailed(metrics), jobs[j].owner)
    /\ tasks' = TasksAfterReturn(jobs[j].owner)
    /\ UNCHANGED outside_pipeline
    /\ UNCHANGED <<config, job_history, scheduler_task, is_running,
                   stop_waiting, ledger, cache_prices, now, start_refused>>

\* lines 661-675: the awaited upsert returns a count; next is the next kind
\* that has records, 0 when there is none
UpsertOk(j, next) ==
    /\ j \in DOMAIN jobs
    /\ jobs[j].pc = "upsert"
    /\ Runnable(jobs[j].owner)
    /\ next # 0 => (next > jobs[j].kind /\ next <= MaxKind)
    /\ LET l == LogEvent(logs, Kinds[jobs[j].kind], j)
       IN  IF next # 0
           THEN /\ jobs' = [jobs EXCEPT ![j].kind = next]
                /\ logs' = l
                /\ UNCHANGED <<job_history, current_job, status, tasks,
                               metrics>>
           ELSE AfterPersist(j, jobs[j], metrics, l)
    /\ UNCHANGED outside_pipeline
    /\ UNCHANGED <<config, scheduler_task, is_running, stop_waiting, ledger,
                   cache_prices, now, start_refused>>

\* lines 677-679: the awaited upsert raises an Exception
UpsertFail(j) ==
    /\ j \in DOMAIN jobs
    /\ jobs[j].pc = "upsert"
    /\ Runnable(jobs[j].owner)
    /\ AfterPersist(j, JobAfterPersistError(jobs[j]), metrics,
                    LogEvent(logs, "pg_persist_error", j))
    /\ UNCHANGED outside_pipeline
    /\ UNCHANGED <<config, scheduler_task, is_running, stop_waiting, ledger,
                   cache_prices, now, start_refused>>

\* line 415: insert_one returns (stored) or raises an Exception (lines
\* 416-417, a logger warning only)
LedgerInsert(j, stored) ==
    /\ j \in DOMAIN jobs
    /\ jobs[j].pc = "insert"
    /\ Runnable(jobs[j].owner)
    /\ ledger' = Append(ledger, [job_id |-> j, stored |-> stored])
    /\ Finish(j, IF stored THEN jobs[j] ELSE JobAfterInsertError(jobs[j]),
              metrics, logs)
    /\ UNCHANGED outside_pipeline
    /\ UNCHANGED <<config, scheduler_task, is_running, stop_waiting,
                   cache_prices, now, start_refused>>

----------------------------------------------------------------------------
(* The scheduler, lines 223-271 *)

NewTask(interval) ==
    [ interval |-> interval,
      pc       |-> "new",     \* new, job, sleep, done
      job      |-> 0,         \* the job of the run_extraction call in flight
      cancel   |-> FALSE ]    \* Task.cancel() was called

\* The coroutine has ended; its frame (interval_minutes) is gone.
DoneTask ==
    [ interval |-> 0, pc |-> "done", job |-> 0, cancel |-> FALSE ]

\* not Task.done()
Alive(t) == tasks[t].pc # "done"

\* line 225
SchedulerActive ==
    scheduler_task # 0 /\ Alive(scheduler_task)

\* start_scheduler without the test of line 225.
StartSchedulerUnguarded(interval) ==
    /\ Len(tasks) < MaxTasks
    /\ is_running' = TRUE
    /\ tasks' = Append(tasks, NewTask(interval))
    /\ scheduler_task' = Len(tasks) + 1
    /\ status' = "scheduled"
    /\ metrics' = [metrics EXCEPT !.next_scheduled_run = now + interval]
    /\ UNCHANGED outside_pipeline
    /\ UNCHANGED <<config, current_job, jobs, job_history, logs,
                   stop_waiting, ledger, cache_prices, now, start_refused>>

\* start_scheduler, lines 223-236
StartScheduler(interval) ==
    IF SchedulerActive
    THEN /\ start_refused' = TRUE
         /\ UNCHANGED outside_pipeline
         /\ UNCHANGED <<config, status, current_job, jobs, job_history,
                        metrics, tasks, scheduler_task, is_running, logs,
                        stop_waiting, ledger, cache_prices, now>>
    ELSE /\ Len(tasks) < MaxTasks
         /\ is_running' = TRUE
         /\ tasks' = Append(tasks, NewTask(interval))
         /\ scheduler_task' = Len(tasks) + 1
         /\ status' = "scheduled"
         /\ metrics' = [metrics EXCEPT !.next_scheduled_run = now + interval]
         /\ UNCHANGED outside_pipeline
         /\ UNCHANGED <<config, current_job, jobs, job_history, logs,
                        stop_waiting, ledger, cache_prices, now,
                        start_refused>>

\* lines 248-249
Stopped ==
    /\ status' = "idle"
    /\ metrics' = [metrics EXCEPT !.next_scheduled_run = NONE]

\* stop_scheduler, lines 238-250, up to its await: awaiting a task that is
\* done does not suspend, and the call runs to its end
StopScheduler ==
    /\ is_running' = FALSE
    /\ IF SchedulerActive
       THEN /\ tasks' = [tasks EXCEPT ![scheduler_task].cancel = TRUE]
            /\ stop_waiting' = stop_waiting \cup {scheduler_task}
            /\ UNCHANGED <<status, metrics>>
       ELSE /\ Stopped
            /\ UNCHANGED <<tasks, stop_waiting>>
    /\ UNCHANGED outside_pipeline
    /\ UNCHANGED <<config, current_job, jobs, job_history, scheduler_task,
                   logs, ledger, cache_prices, now, start_refused>>

\* stop_scheduler, lines 244-250: the awaited task is done
StopReturn(t) ==
    /\ t \in stop_waiting
    /\ ~Alive(t)
    /\ Stopped
    /\ stop_waiting' = stop_waiting \ {t}
    /\ UNCHANGED outside_pipeline
    /\ UNCHANGED <<config, current_job, jobs, job_history, tasks,
                   scheduler_task, is_running, logs, ledger, cache_prices,
                   now, start_refused>>

\* _scheduler_loop, lines 254-257: the task starts, or its sleep is over
LoopStep(t) ==
    /\ t \in DOMAIN tasks
    /\ tasks[t].pc \in {"new", "sleep"}
    /\ ~tasks[t].cancel
    /\ IF is_running
       THEN Begin(t, default_symbols)
       ELSE /\ tasks' = [tasks EXCEPT ![t] = DoneTask]
            /\ UNCHANGED outside_pipeline
            /\ UNCHANGED <<config, status, current_job, jobs, job_history,
                           metrics, scheduler_task, is_running, logs,
                           stop_waiting, ledger, cache_prices, now>>
    /\ UNCHANGED start_refused

\* The cancellation reaches a task that has not started or that sleeps
\* (lines 263-266): the task ends.
CancelIdle(t) ==
    /\ t \in DOMAIN tasks
    /\ tasks[t].cancel
    /\ tasks[t].pc \in {"new", "sleep"}
    /\ tasks' = [tasks EXCEPT ![t] = DoneTask]
    /\ UNCHANGED outside_pipeline
    /\ UNCHANGED <<config, status, current_job, jobs, job_history, metrics,
                   scheduler_task, is_running, logs, stop_waiting, ledger,
                   cache_prices, now, start_refused>>

\* The cancellation reaches a task suspended inside run_extraction:
\* CancelledError is raised at the await, `finally` runs (lines 442-444)
\* and the loop breaks (lines 265-266).
CancelInJob(t) ==
    /\ t \in DOMAIN tasks
    /\ tasks[t].cancel
    /\ tasks[t].pc = "job"
    /\ jobs' = [jobs EXCEPT ![tasks[t].job] = JobAfterCancel(@)]
    /\ current_job' = 0
    /\ status' = FinallyStatus
    /\ tasks' = [tasks EXCEPT ![t] = DoneTask]
    /\ UNCHANGED outside_pipeline
    /\ UNCHANGED <<config, job_history, metrics, scheduler_task, is_running,
                   logs, stop_waiting, ledger, cache_prices, now, start_refused>>

\* Time passes while a call awaits the adapter (line 320).
Tick ==
    /\ now < MaxTime
    /\ \E j \in DOMAIN jobs : jobs[j].pc = "extract"
    /\ now' = now + 1
    /\ UNCHANGED outside_pipeline
    /\ UNCHANGED <<config, status, current_job, jobs, job_history, metrics,
                   tasks, scheduler_task, is_running, logs, stop_waiting,
                   ledger, cache_prices, start_refused>>

----------------------------------------------------------------------------
\* The scheduler and direct calls on the default identifiers, with an
\* adapter that answers all identifiers alike or raises, quote payloads and
\* stores at work: every interleaving of the coroutines at their awaits.
Next ==
    \/ ManualRun(DEFAULT_SYMBOLS)
    \/ \E j \in DOMAIN jobs :
          \E outcome \in UniformOutcomes(jobs[j].symbols) :
             AdapterReturn(j, outcome, QuoteFirst(outcome))
    \/ \E j \in DOMAIN jobs : AdapterRaise(j)
    \/ \E j \in DOMAIN jobs : UpsertOk(j, 0)
    \/ \E j \in DOMAIN jobs : LedgerInsert(j, TRUE)
    \/ \E interval \in Intervals : StartScheduler(interval)
    \/ StopScheduler
    \/ \E t \in DOMAIN tasks : StopReturn(t)
    \/ \E t \in DOMAIN tasks : LoopStep(t)
    \/ \E t \in DOMAIN tasks : CancelIdle(t)
    \/ \E t \in DOMAIN tasks : CancelInJob(t)

Spec == Init /\ [][Next]_vars

\* run_extraction alone: a caller that awaits one call after another, with
\* any identifier list and any result map, under a clock that advances.
NextRun ==
    \/ \E symbols \in ManualSymbolLists :
          /\ Len(jobs) < MaxRuns
          /\ \A k \in DOMAIN jobs : ~InFlight(jobs[k])
          /\ ManualRun(symbols)
    \/ \E j \in DOMAIN jobs, first \in 0..MaxKind :
          \E outcome \in Outcomes(jobs[j].symbols) :
             AdapterReturn(j, outcome, first)
    \/ \E j \in DOMAIN jobs : AdapterRaise(j)
    \/ \E j \in DOMAIN jobs, next \in 0..MaxKind : UpsertOk(j, next)
    \/ \E j \in DOMAIN jobs : UpsertFail(j)
    \/ \E j \in DOMAIN jobs, stored \in BOOLEAN : LedgerInsert(j, stored)
    \/ Tick

SpecRun == InitRun /\ [][NextRun]_vars

\* The constructor arguments under which the store is examined.
StoreConfig ==
    [extractor |-> TRUE, db |-> TRUE, ts_store |-> TRUE, cache |-> "ok"]

\* A store that is constructed over a database holding rows.
InitStore ==
    /\ InitWith({StoreConfig})
    /\ tables \in SeedTables
    /\ store_call = NoCall
    /\ CacheInit
    /\ LimiterInit /\ QueryInit /\ SymbolsInit /\ WebInit

InitScreener ==
    InitWith({StoreConfig}) /\ StoreInit /\ CacheInit /\ LimiterInit /\ QueryInit /\ SymbolsInit /\ WebInit

\* One call of one of the four upsert methods, with any batch.
NextStore ==
    \/ /\ store_call.op = "none"
       /\ \E records \in Batches("price") : UpsertPrices(records)
    \/ /\ store_call.op = "none"
       /\ \E records \in Batches("technical") : UpsertTechnicals(records)
    \/ /\ store_call.op = "none"
       /\ \E records \in Batches("fundamental") : UpsertFundamentals(records)
    \/ /\ store_call.op = "none"
       /\ \E records \in Batches("shareholding") : UpsertShareholding(records)

SpecStore == InitStore /\ [][NextStore]_vars

\* Tables filled one complete record at a time, then one screener request.
NextScreener ==
    \/ /\ store_call.op # "get_screener_data"
       /\ RowCount < MaxRows
       /\ \E r \in LoadRecords("price") : UpsertPrices(<<r>>)
    \/ /\ store_call.op # "get_screener_data"
       /\ RowCount < MaxRows
       /\ \E r \in LoadRecords("technical") : UpsertTechnicals(<<r>>)
    \/ /\ store_call.op # "get_screener_data"
       /\ RowCount < MaxRows
       /\ \E r \in LoadRecords("fundamental") : UpsertFundamentals(<<r>>)
    \/ /\ store_call.op # "get_screener_data"
       /\ RowCount < MaxRows
       /\ \E r \in LoadRecords("shareholding") : UpsertShareholding(<<r>>)
    \/ /\ store_call.op # "get_screener_data"
       /\ \E req \in Requests : GetScreenerData(req)

SpecScreener == InitScreener /\ [][NextScreener]_vars

\* Price and technical rows loaded one record at a time, then one screener
\* request with operator filters.
NextFilter ==
    \/ /\ store_call.op # "get_screener_data"
       /\ RowCount < MaxRows
       /\ \E r \in LoadRecords("price") : UpsertPrices(<<r>>)
    \/ /\ store_call.op # "get_screener_data"
       /\ RowCount < MaxRows
       /\ \E r \in LoadRecords("technical") : UpsertTechnicals(<<r>>)
    \/ /\ store_call.op # "get_screener_data"
       /\ \E req \in FilterRequests : GetScreenerData(req)

SpecFilter == InitScreener /\ [][NextFilter]_vars

\* The same, the request having filters without a usable operator.
NextOdd ==
    \/ /\ store_call.op # "get_screener_data"
       /\ RowCount < MaxRows
       /\ \E r \in LoadRecords("price") : UpsertPrices(<<r>>)
    \/ /\ store_call.op # "get_screener_data"
       /\ RowCount < MaxRows
       /\ \E r \in LoadRecords("technical") : UpsertTechnicals(<<r>>)
    \/ /\ store_call.op # "get_screener_data"
       /\ \E req \in OddRequests : GetScreenerData(req)

SpecOdd == InitScreener /\ [][NextOdd]_vars

\* Movers given to update_top_movers: the identifiers of the two dicts.
MoverSets == {{}, {"A"}, {"B"}}

ClockSteps == {1, PRICE_CACHE_TTL}

\* A cache service that was constructed and not yet initialized.
InitCache == InitWith({StoreConfig}) /\ StoreInit /\ CacheInit /\ LimiterInit /\ QueryInit /\ SymbolsInit /\ WebInit

\* The key-value operations while the Redis server stays down and the
\* clock moves.
NextDegraded ==
    \/ Initialize
    \/ \E key \in CacheKeys : Get(key)
    \/ \E key \in CacheKeys, value \in CacheValues, ttl \in Ttls :
          Set(key, value, ttl)
    \/ \E key \in CacheKeys : Delete(key)
    \/ \E pattern \in Patterns : DeletePattern(pattern)
    \/ /\ advances < MaxAdvances
       /\ \E d \in ClockSteps : AdvanceClock(d)

SpecDegraded == InitCache /\ [][NextDegraded]_vars

\* Every operation of the cache, in either mode, while the Redis server
\* comes and goes.
NextModes ==
    \/ Initialize
    \/ \E key \in CacheKeys : Get(key)
    \/ \E key \in CacheKeys, value \in CacheValues :
          Set(key, value, PRICE_CACHE_TTL)
    \/ \E key \in CacheKeys : Delete(key)
    \/ \E pattern \in Patterns : DeletePattern(pattern)
    \/ SetStockHash([type |-> "int", n |-> 1])
    \/ UpdateTopMovers({"A"}, {"B"})
    \/ PublishPrice
    \/ BackendChange

SpecModes == InitCache /\ [][NextModes]_vars

\* A cache whose initialize has found the Redis server.
InitMovers ==
    /\ InitWith({StoreConfig})
    /\ StoreInit
    /\ clock = 0
    /\ advances = 0
    /\ redis_up = TRUE
    /\ redis_available = TRUE
    /\ fallback_cache = [k \in CacheKeys |-> NoEntry]
    /\ redis = [k \in RedisKeys |-> NoRedisKey]
    /\ cache_call = NoCacheCall
    /\ set_log = [k \in CacheKeys |-> NoSet]
    /\ LimiterInit /\ QueryInit /\ SymbolsInit /\ WebInit

\* The top movers in primary mode.
NextMovers ==
    \/ \E gainers \in MoverSets, losers \in MoverSets :
          gainers \cap losers = {} /\ UpdateTopMovers(gainers, losers)
    \/ GetTopGainers
    \/ GetTopLosers
    \/ /\ advances < MaxAdvances
       /\ \E d \in ClockSteps : AdvanceClock(d)

SpecMovers == InitMovers /\ [][NextMovers]_vars

\* Two coroutines call get_financial_data while time passes.
NextLimiter ==
    \/ /\ Len(requests) < MaxRequests
       /\ \E c \in Callers : Enter(c)
    \/ \E c \in Callers : Wake(c)
    \/ /\ advances < MaxAdvances
       /\ \E d \in {1, REQUEST_DELAY} : AdvanceClock(d)

SpecLimiter == InitCache /\ [][NextLimiter]_vars

EventTypes == {"", "job_started", "job_failed"}

\* run_extraction as under SpecRun, and a client that reads the logs and
\* the data summary between its steps.
NextQuery ==
    \/ NextRun
    \/ \E limit \in 0..MaxLimit, event_type \in EventTypes :
          GetLogs(limit, event_type)
    \/ GetDataSummary

SpecQuery == InitRun /\ [][NextQuery]_vars

\* A service that has run for long: the history and the event log are at
\* their capacity or one entry below it.  The entries of that period carry
\* negative job ids, -1 being the newest; the jobs themselves are not kept.
OldHistory(n) ==
    [i \in 1..n |-> [ job_id       |-> 0 - i,
                      status       |-> "success",
                      completed_at |-> 0,
                      successful   |-> Len(DEFAULT_SYMBOLS),
                      failed       |-> 0 ]]

OldLogs(n) ==
    [i \in 1..n |-> [event_type |-> "job_completed", job_id |-> i - n - 1]]

InitFull ==
    /\ \E h \in {HISTORY_LIMIT - 1, HISTORY_LIMIT},
          l \in {LOG_LIMIT - 1, LOG_LIMIT} :
          InitSeeded(RunConfigs, OldHistory(h), OldLogs(l))
    /\ StoreInit /\ CacheInit /\ LimiterInit /\ QueryInit /\ SymbolsInit /\ WebInit

SpecFull == InitFull /\ [][NextRun]_vars

\* The identifier lists passed to add_symbols and remove_symbols.
SymbolRequests == {<<" c">>, <<"", "A">>}

\* Jobs on the default identifiers while the tracking list is edited through
\* add_symbols and remove_symbols (server.py, lines 1952 and 1967).
NextSymbols ==
    \/ /\ \A k \in DOMAIN jobs : ~InFlight(jobs[k])
       /\ RunExtractionNone
    \/ ManualRun(<<"C", "C">>)
    \/ \E j \in DOMAIN jobs :
          \E outcome \in UniformOutcomes(jobs[j].symbols) :
             AdapterReturn(j, outcome, QuoteFirst(outcome))
    \/ \E j \in DOMAIN jobs : AdapterRaise(j)
    \/ \E j \in DOMAIN jobs : UpsertOk(j, 0)
    \/ \E j \in DOMAIN jobs : LedgerInsert(j, TRUE)
    \/ StartScheduler(1)
    \/ \E t \in DOMAIN tasks : LoopStep(t)
    \/ \E symbols \in SymbolRequests : AddSymbols(symbols)
    \/ \E symbols \in SymbolRequests : RemoveSymbols(symbols)

SpecSymbols == InitScreener /\ [][NextSymbols]_vars

\* Price rows loaded one record at a time, requests to POST /screener, and
\* a clock that moves by less or by more than the time to live.
NextEndpoint ==
    \/ /\ RowCount < MaxRows
       /\ \E r \in {x \in LoadRecords("price") : x.date = DateVal(1)} :
             UpsertPrices(<<r>>)
    \/ \E req \in HttpRequests : ScreenStocks(req)
    \/ /\ advances < MaxAdvances
       /\ \E d \in {1, SCREENER_CACHE_TTL} : AdvanceClock(d)

SpecEndpoint == InitScreener /\ [][NextEndpoint]_vars

\* Clients that connect, subscribe, unsubscribe and disconnect, and price
\* broadcasts any of whose sends may fail.
NextManager ==
    \/ \E c \in Clients : Connect(c)
    \/ \E c \in Clients : Disconnect(c)
    \/ \E c \in Clients, symbols \in SymbolLists : Subscribe(c, symbols)
    \/ \E c \in Clients, symbols \in SymbolLists : Unsubscribe(c, symbols)
    \/ \E prices \in PriceUpdates, failing \in SUBSET Clients :
          BroadcastPrices(prices, failing)

SpecManager == InitScreener /\ [][NextManager]_vars

\* Calls of run_extraction that overlap: a request handler calls it
\* (server.py, line 1741) while the call of a scheduler tick or of another
\* request is suspended at one of its awaits.
NextOverlap ==
    \/ /\ RunExtraction(0, DEFAULT_SYMBOLS)
       /\ UNCHANGED start_refused
    \/ \E j \in DOMAIN jobs :
          \E outcome \in Outcomes(jobs[j].symbols) :
             AdapterReturn(j, outcome, QuoteFirst(outcome))
    \/ \E j \in DOMAIN jobs : AdapterRaise(j)
    \/ \E j \in DOMAIN jobs : UpsertOk(j, 0)
    \/ \E j \in DOMAIN jobs : UpsertFail(j)
    \/ \E j \in DOMAIN jobs, stored \in BOOLEAN : LedgerInsert(j, stored)
    \/ StartScheduler(1)
    \/ \E t \in DOMAIN tasks : LoopStep(t)
    \/ Tick

SpecOverlap == InitScreener /\ [][NextOverlap]_vars

----------------------------------------------------------------------------
(* Properties *)

ErrorSymbols(job) == {job.errors[i].symbol : i \in DOMAIN job.errors}

HistoryCount(j) ==
    Cardinality({i \in DOMAIN job_history : job_history[i].job_id = j})

LedgerCount(j) ==
    Cardinality({i \in DOMAIN ledger : ledger[i].job_id = j})

LoggedFor(j, event_type) ==
    \E i \in DOMAIN logs :
        logs[i].job_id = j /\ logs[i].event_type = event_type

\* A _scheduler_loop task exists that no stop_scheduler call has cancelled.
LoopActive ==
    \E t \in DOMAIN tasks : Alive(t) /\ ~tasks[t].cancel

\* C1: a job with total >= 1 that run_extraction finalizes on its normal
\* path (the adapter returned) is SUCCESS when successful = total,
\* PARTIAL_SUCCESS when 0 < successful < total, FAILED when successful = 0,
\* and has no other status.
C1_ClassificationBySuccessCount ==
    \A j \in DOMAIN jobs :
        (jobs[j].adapter = "returned" /\ jobs[j].total >= 1) =>
            /\ jobs[j].status \in {"success", "partial_success", "failed"}
            /\ jobs[j].successful = jobs[j].total
                  => jobs[j].status = "success"
            /\ (0 < jobs[j].successful
                /\ jobs[j].successful < jobs[j].total)
                  => jobs[j].status = "partial_success"
            /\ jobs[j].successful = 0 => jobs[j].status = "failed"

\* One of two identifiers succeeds: PARTIAL_SUCCESS.
C1_Witness ==
    \E j \in DOMAIN jobs :
        /\ jobs[j].adapter = "returned"
        /\ jobs[j].total = 2
        /\ jobs[j].successful = 1
        /\ jobs[j].status = "partial_success"

\* C2: whatever result map the adapter returns, every entry is processed:
\* successful is the number of entries reported success, failed the number
\* reported failed, and the error list has exactly one entry per failed
\* identifier and none for a successful one.
C2_EveryOutcomeCounted ==
    \A j \in DOMAIN jobs :
        jobs[j].adapter = "returned" =>
            /\ jobs[j].successful = Cardinality(Successes(jobs[j].outcome))
            /\ jobs[j].failed = Cardinality(Failures(jobs[j].outcome))
            /\ ErrorSymbols(jobs[j]) = Failures(jobs[j].outcome)
            /\ Len(jobs[j].errors) = Cardinality(Failures(jobs[j].outcome))

\* A succeeds, B fails: PARTIAL_SUCCESS, 1 successful, 1 failed, one error
\* entry, for B.
C2_Witness ==
    \E j \in DOMAIN jobs :
        /\ jobs[j].symbols = <<"A", "B">>
        /\ jobs[j].outcome =
              [x \in {"A", "B"} |->
                  IF x = "B" THEN "failed" ELSE "success"]
        /\ jobs[j].pc = "done"
        /\ jobs[j].status = "partial_success"
        /\ jobs[j].successful = 1
        /\ jobs[j].failed = 1
        /\ Len(jobs[j].errors) = 1
        /\ jobs[j].errors[1].symbol = "B"

\* C3 (as claimed): a scheduler job whose run_extraction call has ended,
\* also one that was in flight when stop_scheduler was called, has a
\* terminal status and a completion time and is counted in the metrics.
C3_InFlightJobRunsToCompletion ==
    /\ \A j \in DOMAIN jobs :
          (jobs[j].owner # 0 /\ ~InFlight(jobs[j])) =>
              /\ jobs[j].status \in TerminalStatuses
              /\ jobs[j].completed_at # NONE
    /\ metrics.total_jobs_run
          >= Cardinality({j \in DOMAIN jobs : ~InFlight(jobs[j])})

\* The statuses a job has been given form a prefix of
\* PENDING, RUNNING, terminal.
TrailInOrder(job) ==
    /\ Len(job.trail) \in 1..3
    /\ job.trail[1] = "pending"
    /\ Len(job.trail) >= 2 => job.trail[2] = "running"
    /\ Len(job.trail) = 3 => job.trail[3] \in TerminalStatuses
    /\ job.status = job.trail[Len(job.trail)]

\* C4: a job's status moves along PENDING -> RUNNING -> terminal only, and
\* no step changes the status, the counts, the error list or the timestamps
\* of a job that is in a terminal status.
C4_StatusOrderAndImmutability ==
    /\ [](\A j \in DOMAIN jobs : TrailInOrder(jobs[j]))
    /\ [][\A j \in DOMAIN jobs :
            jobs[j].status \in TerminalStatuses =>
                /\ jobs'[j].status = jobs[j].status
                /\ jobs'[j].trail = jobs[j].trail
                /\ jobs'[j].total = jobs[j].total
                /\ jobs'[j].processed = jobs[j].processed
                /\ jobs'[j].successful = jobs[j].successful
                /\ jobs'[j].failed = jobs[j].failed
                /\ jobs'[j].errors = jobs[j].errors
                /\ jobs'[j].created_at = jobs[j].created_at
                /\ jobs'[j].started_at = jobs[j].started_at
                /\ jobs'[j].completed_at = jobs[j].completed_at]_vars

\* A finalized job whose call was cancelled in a persistence write, then a
\* second job, with the scheduler stopped.
C4_Witness ==
    /\ Len(jobs) = 2
    /\ jobs[1].status = "success"
    /\ jobs[1].pc = "aborted"
    /\ jobs[2].status = "failed"
    /\ ~is_running

\* C5 (as claimed): every job run_extraction has returned is once in the
\* history and, with a database, was submitted once to the ledger.
C5_FinalizedJobsInHistoryAndLedger ==
    \A j \in DOMAIN jobs :
        jobs[j].pc = "done" =>
            /\ HistoryCount(j) = 1
            /\ config.db => LedgerCount(j) = 1

\* C6: a step in which a run_extraction call ends, on any path, leaves
\* current_job cleared and the status SCHEDULED if a scheduler loop is
\* active, IDLE otherwise; and the status is RUNNING only while a job is in
\* flight.
C6_ExitClearsCurrentJobAndStatus ==
    /\ [](status = "running" => \E j \in DOMAIN jobs : InFlight(jobs[j]))
    /\ [][(\E j \in DOMAIN jobs' :
              /\ ~InFlight(jobs'[j])
              /\ IF j \in DOMAIN jobs THEN InFlight(jobs[j]) ELSE TRUE)
          => /\ current_job' = 0
             /\ status' = IF LoopActive' THEN "scheduled" ELSE "idle"]_vars

\* A scheduler tick whose adapter raised has returned: SCHEDULED.
C6_Witness ==
    \E j \in DOMAIN jobs :
        /\ jobs[j].owner # 0
        /\ jobs[j].adapter = "raised"
        /\ jobs[j].pc = "done"
        /\ status = "scheduled"
        /\ current_job = 0
        /\ LoopActive

\* C7: at most one scheduler task is alive, and a start_scheduler call made
\* while one is alive changes neither the tasks and their intervals, nor
\* the status, nor the next-run time.
C7_SingleSchedulerTask ==
    /\ [](Cardinality({t \in DOMAIN tasks : Alive(t)}) <= 1)
    /\ [][((\E t \in DOMAIN tasks : Alive(t))
           /\ \E interval \in Intervals : StartScheduler(interval))
          => UNCHANGED <<tasks, scheduler_task, is_running, status,
                         metrics>>]_vars

\* start_scheduler has been refused and the task it found is the only one.
C7_Witness ==
    /\ start_refused
    /\ Len(tasks) = 1
    /\ Alive(1)
    /\ status = "scheduled"

\* C8 (as claimed): when stop_scheduler returns the status is IDLE, the
\* next-run time is cleared and no scheduler task is left alive.
C8_StopLeavesNoScheduler ==
    [][((\E t \in DOMAIN tasks : StopReturn(t))
        \/ (StopScheduler /\ ~SchedulerActive))
       => /\ status' = "idle"
          /\ metrics'.next_scheduled_run = NONE
          /\ \A t \in DOMAIN tasks' : tasks'[t].pc = "done"]_vars

\* C9: while the scheduler is started and not stopped, its task is alive;
\* a tick whose adapter raised or failed every identifier has recorded the
\* failure, its task sleeps, and the wake-up of a sleeping task calls
\* run_extraction on DEFAULT_SYMBOLS.
C9_LoopSurvivesFailures ==
    /\ is_running =>
          /\ scheduler_task # 0
          /\ Alive(scheduler_task)
          /\ ~tasks[scheduler_task].cancel
    /\ \A j \in DOMAIN jobs :
          jobs[j].owner # 0 =>
              /\ jobs[j].symbols = DEFAULT_SYMBOLS
              /\ (jobs[j].pc = "done" /\ jobs[j].successful = 0) =>
                    /\ jobs[j].status = "failed"
                    /\ jobs[j].errors # <<>>
                    /\ Alive(jobs[j].owner) =>
                          tasks[jobs[j].owner].pc \in {"sleep", "job"}
    /\ \A t \in DOMAIN tasks :
          (/\ tasks[t].pc = "sleep"
           /\ ~tasks[t].cancel
           /\ Len(jobs) < MaxJobs
           /\ Cardinality({k \in DOMAIN jobs : InFlight(jobs[k])})
                 < MaxInFlight)
          => ENABLED LoopStep(t)

\* After a tick whose adapter raised, the same task runs the next tick.
C9_Witness ==
    \E j, k \in DOMAIN jobs :
        /\ j < k
        /\ jobs[j].owner # 0
        /\ jobs[k].owner = jobs[j].owner
        /\ jobs[j].adapter = "raised"
        /\ jobs[k].symbols = DEFAULT_SYMBOLS
        /\ is_running

\* C10: a job during which a persistence write failed has the status and
\* the counts that the result map of the adapter determines.
C10_PersistenceFailureKeepsClassification ==
    \A j \in DOMAIN jobs :
        (jobs[j].adapter = "returned" /\ jobs[j].store_failed) =>
            LET ok == Cardinality(Successes(jobs[j].outcome))
            IN  /\ jobs[j].successful = ok
                /\ jobs[j].failed = Cardinality(Failures(jobs[j].outcome))
                /\ jobs[j].status =
                      IF ok = jobs[j].total THEN "success"
                      ELSE IF ok > 0 THEN "partial_success"
                      ELSE "failed"

\* The cache, an upsert and the ledger insert all failed: still SUCCESS.
C10_Witness ==
    \E j \in DOMAIN jobs :
        /\ config.cache = "failing"
        /\ LoggedFor(j, "pg_persist_error")
        /\ \E i \in DOMAIN ledger :
              ledger[i].job_id = j /\ ~ledger[i].stored
        /\ jobs[j].pc = "done"
        /\ jobs[j].status = "success"

\* C11 (as claimed): every job whose status is FAILED has a non-empty error
\* list, whatever the adapter returned or raised.
C11_FailedJobHasErrors ==
    \A j \in DOMAIN jobs :
        jobs[j].status = "failed" => jobs[j].errors # <<>>

\* C12: no run_extraction call ends by an exception of the adapter or of a
\* store: a call whose adapter raised or is missing has returned a FAILED
\* job, a call in which a store failed goes on to its next write or has
\* returned, and every returned job has a terminal status and a completion
\* time.
C12_NoExceptionReachesCaller ==
    \A j \in DOMAIN jobs :
        /\ jobs[j].pc # "aborted"
        /\ jobs[j].adapter \in {"raised", "missing"} =>
              (jobs[j].pc = "done" /\ jobs[j].status = "failed")
        /\ jobs[j].store_failed => jobs[j].pc \in {"upsert", "insert", "done"}
        /\ jobs[j].pc = "done" =>
              /\ jobs[j].status \in TerminalStatuses
              /\ jobs[j].completed_at # NONE

\* The adapter raised and the call has returned a FAILED job.
C12_Witness ==
    \E j \in DOMAIN jobs :
        /\ jobs[j].adapter = "raised"
        /\ jobs[j].pc = "done"
        /\ jobs[j].status = "failed"
        /\ jobs[j].errors # <<>>

\* C13: a job that has a completion time has processed = successful +
\* failed; a job is created with total = the number of identifiers of the
\* request, and no step changes the total of a job.
C13_CountsAddUpAndTotalFixed ==
    /\ [](\A j \in DOMAIN jobs :
            jobs[j].completed_at # NONE =>
                jobs[j].processed = jobs[j].successful + jobs[j].failed)
    /\ [][\A j \in DOMAIN jobs' :
            IF j \in DOMAIN jobs
            THEN jobs'[j].total = jobs[j].total
            ELSE jobs'[j].total = Len(jobs'[j].symbols)]_vars

\* A request naming one identifier twice: total 2, one entry processed.
C13_Witness ==
    \E j \in DOMAIN jobs :
        /\ jobs[j].symbols = <<"C", "C">>
        /\ jobs[j].pc = "done"
        /\ jobs[j].total = 2
        /\ jobs[j].processed = 1
        /\ jobs[j].failed = 1

----------------------------------------------------------------------------
(* Properties of the time-series store *)

\* A record with a date the store can use.
WellFormed(r) ==
    r.date.form \in {"str", "date"} /\ r.date.day \in Days

\* The composite key a well-formed record names; a date string and the
\* date value of the same day name the same key.
RecordKey(kind, r) ==
    IF kind = "fundamental"
    THEN <<r.symbol, r.date.day,
           IF r.ptype = "absent" THEN "quarterly" ELSE r.ptype>>
    ELSE <<r.symbol, r.date.day>>

\* The value a write gives a column: its own, or the default (0 for a
\* price column) or null when it omits the field.
WrittenValue(kind, r) ==
    IF r.v # ABSENT THEN r.v ELSE IF kind = "price" THEN 0 ELSE NONE

KeysOf(kind, table) == {Key(kind, x) : x \in table}

BatchKeys(kind, records) ==
    {RecordKey(kind, records[i]) :
        i \in {k \in DOMAIN records : WellFormed(records[k])}}

\* The last well-formed record of a batch that names the key.
LastWrite(kind, records, key) ==
    LET at == {i \in DOMAIN records :
                  WellFormed(records[i])
                  /\ RecordKey(kind, records[i]) = key}
    IN  records[CHOOSE i \in at : \A k \in at : k <= i]

\* C14: every table holds at most one row per composite key, and after an
\* upsert call the keys of the table are among those it had and those of
\* the well-formed records of the batch, a date string and the equal date
\* value being the same key: a key that exists gets no second row.
C14_OneRowPerKey ==
    /\ [](\A kind \in Range(Kinds) :
            \A x, y \in tables[kind] :
                Key(kind, x) = Key(kind, y) => x = y)
    /\ [][store_call'.op = "upsert" =>
            LET kind == store_call'.kind
                keys == KeysOf(kind, tables[kind])
                           \cup BatchKeys(kind, store_call'.records)
            IN  /\ KeysOf(kind, tables'[kind]) \subseteq keys
                /\ Cardinality(tables'[kind]) <= Cardinality(keys)]_vars

\* One batch names day 1 of X as a string and as a date value: both
\* records were applied and the table has one row for that day.
C14_Witness ==
    /\ store_call.op = "upsert"
    /\ store_call.kind = "price"
    /\ Len(store_call.records) = 2
    /\ store_call.records[1].symbol = "X"
    /\ store_call.records[2].symbol = "X"
    /\ store_call.records[1].date = DateStr(1)
    /\ store_call.records[2].date = DateVal(1)
    /\ store_call.count = 2
    /\ Cardinality({x \in tables["price"] :
                       x.symbol = "X" /\ x.day = 1}) = 1

\* C15: after an upsert call none of whose records the database rejects,
\* the row of every key the batch names holds the values of the last
\* record of the batch with that key (the default or null for a field that
\* record omits), whatever the row held before; the other rows and the
\* other tables are as they were.
C15_LastWriteWins ==
    [][(/\ store_call'.op = "upsert"
        /\ \A i \in DOMAIN store_call'.records :
              store_call'.records[i].date # NoDate)
       => LET kind == store_call'.kind
              recs == store_call'.records
          IN  /\ \A key \in BatchKeys(kind, recs) :
                    \E x \in tables'[kind] :
                        /\ Key(kind, x) = key
                        /\ x.v = WrittenValue(kind,
                                               LastWrite(kind, recs, key))
              /\ \A x \in tables[kind] :
                    Key(kind, x) \notin BatchKeys(kind, recs)
                       => x \in tables'[kind]
              /\ \A other \in Range(Kinds) \ {kind} :
                    tables'[other] = tables[other]]_vars

\* One batch writes close = 1 for a key and then the same key without a
\* close: the row holds the default, 0.
C15_Witness ==
    /\ store_call.op = "upsert"
    /\ store_call.kind = "price"
    /\ Len(store_call.records) = 2
    /\ WellFormed(store_call.records[1])
    /\ WellFormed(store_call.records[2])
    /\ RecordKey("price", store_call.records[1])
          = RecordKey("price", store_call.records[2])
    /\ store_call.records[1].v = 1
    /\ store_call.records[2].v = ABSENT
    /\ \E x \in tables["price"] :
          /\ Key("price", x) = RecordKey("price", store_call.records[2])
          /\ x.v = 0

\* C16 (as claimed): when an upsert call returns, every well-formed record
\* of the batch is stored, whatever records failed before or after it, and
\* the returned count is the number of these records.
C16_FailedRecordSkippedAlone ==
    [][store_call'.op = "upsert" =>
          LET kind == store_call'.kind
              recs == store_call'.records
              good == {i \in DOMAIN recs : WellFormed(recs[i])}
          IN  /\ store_call'.count = Cardinality(good)
              /\ \A i \in good :
                    RecordKey(kind, recs[i])
                       \in KeysOf(kind, tables'[kind])]_vars

\* The rows of an identifier in a table, and the latest of them.
RowsOf(kind, symbol) == {x \in tables[kind] : x.symbol = symbol}

Newest(rows) == {x \in rows : \A y \in rows : y.day <= x.day}

\* C17: every row of a screener result carries the date and the close of
\* the price row of its identifier with the greatest date, and no two
\* rows of a result have the same identifier.
C17_LatestPricePerIdentifier ==
    store_call.op = "get_screener_data" =>
        LET result == store_call.result
        IN  /\ \A i \in DOMAIN result :
                  \E p \in Newest(RowsOf("price", result[i].symbol)) :
                      result[i].day = p.day /\ result[i].price = p.v
            /\ \A i, j \in DOMAIN result :
                  result[i].symbol = result[j].symbol => i = j

\* X has price rows for day 1 and day 2 with different closes; the result
\* shows X with day 2.
C17_Witness ==
    /\ store_call.op = "get_screener_data"
    /\ \E p, q \in RowsOf("price", "X") :
          p.day = 1 /\ q.day = 2 /\ p.v # q.v
    /\ \E i \in DOMAIN store_call.result :
          store_call.result[i].symbol = "X" /\ store_call.result[i].day = 2

\* C18 (as claimed): in every row of a screener result the column of each
\* of the four kinds is that of the identifier's row with the greatest
\* date (period end, quarter end) among all its rows of that kind.
C18_LatestRowOfEachKind ==
    store_call.op = "get_screener_data" =>
        \A i \in DOMAIN store_call.result :
            \A kind \in Range(Kinds) :
                LET rows == RowsOf(kind, store_call.result[i].symbol)
                IN  rows # {} =>
                       \E x \in Newest(rows) :
                           store_call.result[i][kind] = x.v

\* C19: an identifier with a price row is in the result of a request
\* without filters and without identifier list, unless the result is cut
\* at its limit; in every row of such a result the column of a kind in
\* which the identifier has no row is null.
C19_MissingKindsLeftNull ==
    (/\ store_call.op = "get_screener_data"
     /\ store_call.request.filters = <<>>
     /\ store_call.request.symbols = <<>>)
    => LET result == store_call.result
       IN  /\ \A symbol \in StoreSymbols :
                 RowsOf("price", symbol) # {} =>
                    \/ \E i \in DOMAIN result : result[i].symbol = symbol
                    \/ Len(result) = store_call.request.limit
           /\ \A i \in DOMAIN result :
                 \A kind \in Range(Kinds) :
                    RowsOf(kind, result[i].symbol) = {}
                       => result[i][kind] = NONE

\* X has a price row and nothing else, Y has a price row and a technical
\* row: the unfiltered result has both, X with three null columns.
C19_Witness ==
    /\ store_call.op = "get_screener_data"
    /\ store_call.request.filters = <<>>
    /\ store_call.request.symbols = <<>>
    /\ store_call.request.limit = 200
    /\ RowsOf("technical", "X") = {}
    /\ RowsOf("technical", "Y") # {}
    /\ Len(store_call.result) = 2
    /\ \E i \in DOMAIN store_call.result :
          /\ store_call.result[i].symbol = "X"
          /\ store_call.result[i].technical = NONE
          /\ store_call.result[i].fundamental = NONE
          /\ store_call.result[i].shareholding = NONE

\* The metrics of the allow-list (those the tables of the model have).
AllowList == {"close", "current_price", "rsi_14", "roe", "promoter_holding"}

RemoveAt(seq, i) == SubSeq(seq, 1, i - 1) \o SubSeq(seq, i + 1, Len(seq))

\* C20: the result of a request one of whose filters names a metric
\* outside the allow-list is a result of the same request without that
\* filter.
C20_UnknownMetricIsNoFilter ==
    store_call.op = "get_screener_data" =>
        \A i \in DOMAIN store_call.request.filters :
            store_call.request.filters[i].metric \notin AllowList =>
                store_call.result \in
                    ScreenerResults(tables,
                        [store_call.request EXCEPT
                            !.filters = RemoveAt(@, i)])

\* A request with the unknown metric and a filter on close has a row.
C20_Witness ==
    /\ store_call.op = "get_screener_data"
    /\ Len(store_call.request.filters) = 2
    /\ store_call.request.filters[1].metric = "not_a_real_metric"
    /\ store_call.request.filters[2].metric = "close"
    /\ store_call.result # <<>>
    /\ \E x \in tables["price"] : x.v = 1

\* The value of the latest row of an identifier in a table, NONE without
\* a row.
LatestValue(kind, symbol) ==
    LET rows == Newest(RowsOf(kind, symbol))
    IN  IF rows = {} THEN NONE ELSE (CHOOSE x \in rows : TRUE).v

\* What a filter with one of the six operators asks of a column value.
Holds(f, x) ==
    /\ x # NONE
    /\ CASE f.op = "gt"      -> x > f.value
         [] f.op = "lt"      -> x < f.value
         [] f.op = "gte"     -> x >= f.value
         [] f.op = "lte"     -> x <= f.value
         [] f.op = "eq"      -> x = f.value
         [] f.op = "between" -> f.value <= x /\ x <= f.value2

\* C21: a request whose filters name price or technical metrics with one of
\* the six operators returns exactly the identifiers with a price row
\* whose latest rows satisfy every filter: gt and lt strictly, gte, lte and
\* eq with equality, between with both bounds included, and never with a
\* null column.
C21_FiltersConjoinedAndInclusive ==
    (/\ store_call.op = "get_screener_data"
     /\ store_call.request \in FilterRequests)
    => LET req == store_call.request
       IN  {store_call.result[i].symbol : i \in DOMAIN store_call.result}
           = { symbol \in StoreSymbols :
                 /\ RowsOf("price", symbol) # {}
                 /\ \A i \in DOMAIN req.filters :
                       Holds(req.filters[i],
                             LatestValue(ColumnMap(req.filters[i].metric),
                                         symbol)) }

\* X closed last at 1 and Y at 2: close between 2 and 2 returns Y alone.
C21_Witness ==
    /\ store_call.op = "get_screener_data"
    /\ store_call.request.filters
          = <<[metric |-> "close", op |-> "between", value |-> 2,
               value2 |-> 2]>>
    /\ LatestValue("price", "X") = 1
    /\ LatestValue("price", "Y") = 2
    /\ Len(store_call.result) = 1
    /\ store_call.result[1].symbol = "Y"

\* A step that is a call of get: it leaves "get" as the last call and does
\* not move the clock.
GetStep == cache_call'.op = "get" /\ clock' = clock

\* C22: in degraded mode a get returns the value of the last set of the key
\* while the clock has not passed the time of that set plus its ttl, and a
\* miss afterwards; the get that finds the entry expired removes it; no
\* get touches the entry of another key and no move of the clock touches
\* any entry.
C22_DegradedTtlLazyExpiry ==
    [][/\ (GetStep /\ ~redis_available) =>
            LET key == cache_call'.key
                log == set_log[key]
            IN  /\ cache_call'.value =
                      IF log.set /\ clock <= log.at + log.ttl
                      THEN log.value ELSE MISS
                /\ (log.set /\ clock > log.at + log.ttl)
                      => ~fallback_cache'[key].present
                /\ \A k \in CacheKeys \ {key} :
                      fallback_cache'[k] = fallback_cache[k]
       /\ clock' # clock => fallback_cache' = fallback_cache]_vars

\* stock_list was set at 0 with ttl 1 and read at 2: a miss, and the entry
\* is gone, while the expired entry of price:A, never read, is still there.
C22_Witness ==
    /\ ~redis_available
    /\ cache_call.op = "get"
    /\ cache_call.key = <<"stock_list">>
    /\ cache_call.value = MISS
    /\ set_log[<<"stock_list">>] =
          [set |-> TRUE, value |-> [type |-> "int", n |-> 1], at |-> 0,
           ttl |-> 1]
    /\ clock = 2
    /\ ~fallback_cache[<<"stock_list">>].present
    /\ fallback_cache[<<"price:", "A">>].present
    /\ fallback_cache[<<"price:", "A">>].expires_at < clock

\* C23 (as claimed): when initialize has found the Redis server down, the
\* operation that follows, whichever it is (a repeated initialize
\* included), leaves the service in degraded mode, and a get, set or delete
\* made then reports no error.
C23_DegradedForGood ==
    [][(cache_call.op = "initialize" /\ ~redis_available)
          => /\ ~redis_available'
             /\ cache_call'.op \in {"get", "set", "delete"}
                   => cache_call'.ok]_vars

\* The members of a ranked set as Redis holds it after a step.
MembersAfter(key) ==
    IF redis'[key].type = "zset" /\ clock' < redis'[key].expires_at
    THEN redis'[key].members ELSE {}

\* C24 (as claimed): when update_top_movers(gainers, losers) has returned
\* in primary mode, the gainers ranked set holds exactly the identifiers of
\* gainers, and no identifier is in both ranked sets.
C24_TopMoversReplaced ==
    [][(/\ cache_call'.op = "update_top_movers"
        /\ cache_call'.ok
        /\ clock' = clock)
          => /\ MembersAfter(<<"top_gainers">>) = cache_call'.members
             /\ MembersAfter(<<"top_gainers">>)
                   \cap MembersAfter(<<"top_losers">>) = {}]_vars

\* C25 (as claimed): any two consecutive upstream requests are at least
\* REQUEST_DELAY apart, and the watermark never decreases.
C25_RequestsSpaced ==
    [][/\ \A i \in 1..(Len(requests') - 1) :
             requests'[i + 1] - requests'[i] >= REQUEST_DELAY
       /\ last_request_time' >= last_request_time]_vars

\* The jobs that run_extraction has finalized, and the sum of their
\* durations.
Finalized == {j \in DOMAIN jobs : jobs[j].completed_at # NONE}

RECURSIVE DurationSum(_)
DurationSum(js) ==
    IF js = {} THEN 0
    ELSE LET j == CHOOSE x \in js : TRUE
         IN  (jobs[j].completed_at - jobs[j].started_at)
             + DurationSum(js \ {j})

\* C26 (as claimed): the average job duration is the arithmetic mean of the
\* durations of the jobs counted in the jobs-run counter.
C26_AverageIsMeanOfDurations ==
    metrics.total_jobs_run = Cardinality(Finalized)
       => metrics.avg_job_duration_seconds.num * metrics.total_jobs_run
          = metrics.avg_job_duration_seconds.den * DurationSum(Finalized)

\* A step in which run_extraction finalizes job j.
Finalizes(j) ==
    /\ j \in DOMAIN jobs'
    /\ jobs'[j].completed_at # NONE
    /\ j \in DOMAIN jobs => jobs[j].completed_at = NONE

\* C27 (as claimed): when a job finalizes, the missing identifiers are the
\* identifiers asked of the job that it did not receive, and the received
\* count plus the number of missing identifiers is the expected count.
C27_MissingIsExpectedMinusReceived ==
    [][\A j \in DOMAIN jobs' :
          Finalizes(j) =>
             /\ Range(metrics'.missing_symbols)
                   = Range(jobs'[j].symbols) \ jobs'[j].results
             /\ metrics'.received_daily_symbols
                   + Len(metrics'.missing_symbols)
                = metrics'.expected_daily_symbols]_vars

\* The history entries get_data_summary looks at that are of a job with
\* status SUCCESS or PARTIAL_SUCCESS, and the identifiers those jobs
\* extracted.
RecentGood ==
    {i \in 1..Len(job_history) :
        /\ i <= SUMMARY_JOBS
        /\ job_history[i].status \in {"success", "partial_success"}}

Extracted == UNION {jobs[job_history[i].job_id].results : i \in RecentGood}

\* C28 (as claimed): get_data_summary lists every identifier extracted by
\* a successful or partially successful job among the 10 most recent
\* history entries, with the payload of the most recent such job, and
\* unique_symbols_extracted is the number of these identifiers.
C28_SummaryListsExtracted ==
    [][(query_call'.op = "get_data_summary" /\ UNCHANGED pipeline_vars)
          => /\ \A symbol \in Extracted :
                   \E i \in RecentGood :
                      /\ symbol \in jobs[job_history[i].job_id].results
                      /\ \A k \in RecentGood :
                            k < i => symbol
                                       \notin jobs[job_history[k].job_id].results
                      /\ <<symbol, job_history[i].job_id>>
                            \in query_call'.data_by_symbol
             /\ query_call'.unique_symbols_extracted
                   = Cardinality(Extracted)]_vars

\* The log entries of a kind, of any kind for "".
OfKind(event_type) ==
    IF event_type = "" THEN logs
    ELSE SelectSeq(logs, LAMBDA e : e.event_type = event_type)

\* C29 (as claimed): get_logs(limit, kind) returns the most recent entries
\* of the kind, in the order of the log, and at most limit of them, for
\* every limit from 0 on.
C29_LogsAtMostLimit ==
    [][(query_call'.op = "get_logs" /\ UNCHANGED pipeline_vars)
          => LET f == OfKind(query_call'.event_type)
                 k == IF query_call'.limit < Len(f)
                      THEN query_call'.limit ELSE Len(f)
             IN  /\ Len(query_call'.logs) <= query_call'.limit
                 /\ query_call'.logs = SubSeq(f, Len(f) - k + 1, Len(f))]_vars

\* C30 (as claimed): while some job is in flight the pipeline status is
\* RUNNING and the current-job pointer designates a job in flight.
C30_RunningWhileJobInFlight ==
    (\E j \in DOMAIN jobs : InFlight(jobs[j]))
       => /\ status = "running"
          /\ current_job \in DOMAIN jobs
          /\ InFlight(jobs[current_job])

----------------------------------------------------------------------------
\* C31: the in-memory job history is ordered by the completion time of the
\* jobs, newest first, also when two calls of run_extraction overlap and
\* their persistence writes end in another order than the jobs completed.
C31_HistoryNewestFirst ==
    \A i \in 1..(Len(job_history) - 1) :
       job_history[i].completed_at >= job_history[i + 1].completed_at

----------------------------------------------------------------------------
\* The jobs counted as successful (SUCCESS or PARTIAL_SUCCESS), and the sum
\* of the successful counts of a set of jobs.
FinalizedGood ==
    {j \in Finalized : jobs[j].status \in {"success", "partial_success"}}

RECURSIVE SuccessfulSum(_)
SuccessfulSum(js) ==
    IF js = {} THEN 0
    ELSE LET j == CHOOSE x \in js : TRUE
         IN  jobs[j].successful + SuccessfulSum(js \ {j})

CountersAgree ==
    /\ metrics.total_jobs_run = Cardinality(Finalized)
    /\ metrics.total_jobs_run = metrics.successful_jobs + metrics.failed_jobs
    /\ metrics.successful_jobs = Cardinality(FinalizedGood)
    /\ metrics.total_symbols_processed = SuccessfulSum(Finalized)

CountersGrow ==
    /\ metrics'.total_jobs_run >= metrics.total_jobs_run
    /\ metrics'.successful_jobs >= metrics.successful_jobs
    /\ metrics'.failed_jobs >= metrics.failed_jobs
    /\ metrics'.total_symbols_processed >= metrics.total_symbols_processed

----------------------------------------------------------------------------
\* C33 (as claimed): a finalized job whose successful count is 0 is
\* classified FAILED, whatever its total, also when the identifier list was
\* empty or the adapter returned no outcome.
C33_ZeroSuccessfulIsFailed ==
    \A j \in Finalized :
       jobs[j].successful = 0 => jobs[j].status = "failed"

----------------------------------------------------------------------------
\* A step at which a persistence write of job j fails: an awaited upsert of
\* _persist_to_timeseries raises, or insert_one raises.
PersistenceFails(j) ==
    \/ UpsertFail(j)
    \/ LedgerInsert(j, FALSE)

\* C34 (as claimed): every failure of a persistence write during a job, of a
\* time-series upsert or of the ledger insert, adds an entry to the event
\* log.
C34_PersistenceFailureLogged ==
    [][\A j \in DOMAIN jobs :
          PersistenceFails(j) => Len(logs') = Len(logs) + 1]_vars

----------------------------------------------------------------------------
Min(a, b) == IF a < b THEN a ELSE b

\* h2 is h with one entry added in front, the entries of h that are kept
\* being its newest (first) ones in their order.
HistoryPushed(h, h2) ==
    LET keep == Min(Len(h), HISTORY_LIMIT - 1)
    IN  /\ Len(h2) = keep + 1
        /\ SubSeq(h2, 2, Len(h2)) = SubSeq(h, 1, keep)

\* l2 is l with k entries added at its end, the entries of l that are kept
\* being its newest (last) ones in their order.
LogsPushed(l, l2, k) ==
    LET keep == Min(Len(l), LOG_LIMIT - k)
    IN  /\ Len(l2) = keep + k
        /\ SubSeq(l2, 1, keep) = SubSeq(l, Len(l) - keep + 1, Len(l))

\* A step at which the call of job j reaches line 420 and returns.
Returns(j) ==
    /\ jobs[j].pc # "done"
    /\ jobs'[j].pc = "done"
    /\ jobs'[j].adapter = "returned"

WithinCapacity ==
    /\ Len(job_history) <= HISTORY_LIMIT
    /\ Len(logs) <= LOG_LIMIT

\* C35: the history never holds more than 100 entries and the event log
\* never more than 1000; an entry added to a full collection drops the
\* oldest one and leaves the others in their order.
C35_BoundedOldestDropped ==
    /\ []WithinCapacity
    /\ [][/\ job_history' # job_history
              => HistoryPushed(job_history, job_history')
          /\ logs' # logs
              => \E k \in 1..2 : LogsPushed(logs, logs', k)
          /\ \A j \in DOMAIN jobs :
                Returns(j) => job_history'[1].job_id = j
          /\ Len(jobs') > Len(jobs)
              => \E i \in DOMAIN logs' : logs'[i].job_id = Len(jobs')]_vars

\* A job was inserted into a full history and logged into a full event
\* log: the oldest entry of each is gone.
C35_Witness ==
    /\ Len(job_history) = HISTORY_LIMIT
    /\ job_history[1].job_id = 1
    /\ job_history[HISTORY_LIMIT].job_id = 1 - HISTORY_LIMIT
    /\ Len(logs) = LOG_LIMIT
    /\ logs[LOG_LIMIT].job_id = 1
    /\ logs[1].job_id > 0 - LOG_LIMIT

----------------------------------------------------------------------------
\* C36 (as claimed): the identifier list of a job is fixed when the job is
\* created; add_symbols and remove_symbols change the list of no job, and
\* the length of a job's list equals its total.
C36_JobSymbolsFixed ==
    /\ [](\A j \in DOMAIN jobs : Len(jobs[j].symbols) = jobs[j].total)
    /\ [][\A j \in DOMAIN jobs : jobs'[j].symbols = jobs[j].symbols]_vars

----------------------------------------------------------------------------
\* The identifiers that have a row in a table.
SymbolsOf(kind) == {row.symbol : row \in tables[kind]}

\* C38: every identifier of a screener result has at least one price row,
\* whatever the filters, the identifier list, the sort and the limit.
C38_ResultsHavePriceRow ==
    store_call.op = "get_screener_data" =>
        \A i \in DOMAIN store_call.result :
            store_call.result[i].symbol \in SymbolsOf("price")

\* A request returns an identifier while another identifier, which the
\* request does not exclude by a filter or by its identifier list, has a
\* technical row and no price row.
C38_Witness ==
    /\ store_call.op = "get_screener_data"
    /\ store_call.request.filters = <<>>
    /\ store_call.request.symbols = <<>>
    /\ store_call.request.limit > 1
    /\ store_call.result # <<>>
    /\ SymbolsOf("technical") \ SymbolsOf("price") # {}

----------------------------------------------------------------------------
\* The operators for which lines 522-547 add a condition.
KnownOperators == {"gt", "lt", "gte", "lte", "eq", "between"}

\* A filter on an allow-listed metric that no branch of the chain takes.
Dropped(f) ==
    /\ f.metric \in AllowList
    /\ \/ f.op \notin KnownOperators \cup {"absent"}
       \/ f.op = "between" /\ f.value2 = ABSENT

\* C39: a filter on an allow-listed metric with an operator outside the six,
\* or a `between` without a second value, does not restrict the result,
\* which is a result of the same request without that filter; a filter
\* without an operator selects the rows whose column is greater than or
\* equal to the value.
C39_OddOperators ==
    store_call.op = "get_screener_data" =>
        \A i \in DOMAIN store_call.request.filters :
            LET f == store_call.request.filters[i]
            IN  /\ Dropped(f) =>
                      store_call.result \in
                          ScreenerResults(tables,
                              [store_call.request EXCEPT
                                  !.filters = RemoveAt(@, i)])
                /\ (f.metric \in AllowList /\ f.op = "absent") =>
                      /\ \A k \in DOMAIN store_call.result :
                            Holds([f EXCEPT !.op = "gte"],
                                  store_call.result[k][ColumnMap(f.metric)])
                      /\ store_call.result \in
                             ScreenerResults(tables,
                                 [store_call.request EXCEPT
                                     !.filters[i].op = "gte"])

\* A request with an unknown operator on close, a filter without operator
\* on close with value 2, and prices 1 and 2 in the table: one row returned.
C39_Witness ==
    /\ store_call.op = "get_screener_data"
    /\ Len(store_call.request.filters) = 2
    /\ store_call.request.filters[1].op = "like"
    /\ store_call.request.filters[2].op = "absent"
    /\ store_call.request.filters[2].metric = "close"
    /\ Len(store_call.result) = 1
    /\ \E x, y \in LatestPrices(tables) : x.v = 1 /\ y.v = 2

----------------------------------------------------------------------------
\* The parameters of a request that shape its result.
Parameters(req) ==
    <<req.filters, req.sort_by, req.sort_order, req.limit>>

\* C37 (as claimed): a response served from the cache was produced by a
\* request with the same filters, sort column, sort order and limit.
C37_CachedForSameParameters ==
    http_call.cached =>
        Parameters(http_call.produced_by) = Parameters(http_call.request)

----------------------------------------------------------------------------
\* The clients subscribed to some symbol.
Subscribers ==
    UNION {manager.subscriptions[s] : s \in DOMAIN manager.subscriptions}

\* C40 (as claimed): client c is in subscriptions[s] exactly when s is in
\* connection_subscriptions[c], every subscribed client is connected, and
\* no symbol maps to an empty set of subscribers.
C40_SubscriptionMapsAgree ==
    /\ \A s \in DOMAIN manager.subscriptions :
          \A c \in manager.subscriptions[s] :
             /\ c \in DOMAIN manager.connection_subscriptions
             /\ s \in manager.connection_subscriptions[c]
    /\ \A c \in DOMAIN manager.connection_subscriptions :
          \A s \in manager.connection_subscriptions[c] :
             /\ s \in DOMAIN manager.subscriptions
             /\ c \in manager.subscriptions[s]
    /\ Subscribers \subseteq manager.active_connections
    /\ \A s \in DOMAIN manager.subscriptions :
          manager.subscriptions[s] # {}

====
